---- MODULE Spec2Model ----
(***************************************************************************)
(* A model of the persistent last-writer-win object graph                  *)
(* (src/persistent/crdt/object_graph.rs) and of the code generated by the  *)
(* #[model] macro (packages/beacons_macros/src/lib.rs).                    *)
(*                                                                         *)
(* The in-memory graph jcrdt::ObjectGraph, its registers and the ambient   *)
(* store live in crate::joinable / crate::global, which are not part of    *)
(* the sources at hand; they are modelled from spec.md (sections 3, 4.2,   *)
(* 4.3, 4.6).                                                              *)
(***************************************************************************)
EXTENDS Integers, Sequences, FiniteSets, TLC

\* ------------------------------------------------------------------ bounds

\* Clocks range over 0..MaxClock.
MaxClock == 2

\* The byte widths of the encodings. The program encodes a u128 (an id, a
\* clock) on 16 bytes and a u64 (a label) on 8; the model's ids, clocks and
\* labels are small numbers, encoded big-endian on fewer bytes.
U128Bytes == 2
U64Bytes == 1

\* ------------------------------------------------------------ universes

Replicas == {"A", "B"}
NodeIds == {1, 2}
EdgeIds == {3}
Labels == {1, 2}
Clocks == 0..MaxClock

\* Option<T>: None is the empty sequence, Some(v) the one-element sequence.
None == <<>>
Some(v) == <<v>>
IsSome(o) == o # <<>>
Unwrap(o) == o[1]

\* The edge values (src, label, dst) the model writes.
EdgeValues == {<<1, 1, 2>>, <<2, 2, 1>>}

\* ------------------------------------------------- big-endian encoding

\* to_be_bytes of a w-byte unsigned integer.
RECURSIVE to_be_bytes(_, _)
to_be_bytes(n, w) ==
  IF w = 0 THEN <<>> ELSE Append(to_be_bytes(n \div 256, w - 1), n % 256)

\* from_be_bytes of a byte sequence.
RECURSIVE from_be_bytes(_)
from_be_bytes(bs) ==
  IF bs = <<>> THEN 0
  ELSE from_be_bytes(SubSeq(bs, 1, Len(bs) - 1)) * 256 + bs[Len(bs)]


\* u128::to_be_bytes / u128::from_be_bytes and the u64 ones.
u128_to_be_bytes(n) == to_be_bytes(n, U128Bytes)
u64_to_be_bytes(n) == to_be_bytes(n, U64Bytes)
u128_from_be_bytes(bs) == from_be_bytes(bs)
u64_from_be_bytes(bs) == from_be_bytes(bs)

\* Clock::to_u128 / Clock::from_be_bytes: a clock is its 128-bit number.
clock_to_u128(c) == c
clock_from_be_bytes(bs) == from_be_bytes(bs)

\* ------------------------------------------------------------ registers

\* Register<V> = (clock, Option<V>); Register::from.
Register(clock, value) == [clock |-> clock, value |-> value]

\* Register::default(): clock 0, no value.
DefaultRegister == Register(0, None)

\* Lexicographic order of two sequences of numbers.
RECURSIVE LexLeq(_, _)
LexLeq(x, y) ==
  IF x = <<>> THEN TRUE
  ELSE IF y = <<>> THEN FALSE
  ELSE IF x[1] # y[1] THEN x[1] < y[1]
  ELSE LexLeq(Tail(x), Tail(y))

\* The order of two values of a kind of register: labels ("node") as
\* numbers, (src, label, dst) triples ("edge") lexicographically.
LabelLeq(x, y) == x <= y
TripleLeq(x, y) == LexLeq(x, y)

\* None sorts before Some; two present values compare in their order.
ValueLeq(u, v, kind) ==
  IF ~IsSome(u) THEN TRUE
  ELSE IF ~IsSome(v) THEN FALSE
  ELSE IF kind = "node" THEN LabelLeq(Unwrap(u), Unwrap(v))
  ELSE TripleLeq(Unwrap(u), Unwrap(v))

\* Register::join: the greater clock wins, ties are broken on the value.
RegisterJoin(a, b, kind) ==
  IF a.clock < b.clock THEN b
  ELSE IF a.clock > b.clock THEN a
  ELSE IF ValueLeq(a.value, b.value, kind) THEN b
  ELSE a

\* Register preorder: a <= b.
RegisterPreq(a, b, kind) ==
  \/ a.clock < b.clock
  \/ a.clock = b.clock /\ ValueLeq(a.value, b.value, kind)

\* -------------------------------------------------------------- maps

EmptyMap == [k \in {} |-> DefaultRegister]
Insert(m, k, v) == [x \in (DOMAIN m) \cup {k} |-> IF x = k THEN v ELSE m[x]]
Remove(m, k) == [x \in (DOMAIN m) \ {k} |-> m[x]]
\* The register of k in m, the default register when m has none.
Get(m, k) == IF k \in DOMAIN m THEN m[k] ELSE DefaultRegister

\* Pointwise register join of two maps over the union of their keys.
MapJoin(m, t, kind) ==
  [k \in (DOMAIN m) \cup (DOMAIN t) |->
     RegisterJoin(Get(m, k), Get(t, k), kind)]

\* Pointwise register preorder of two maps over the union of their keys.
MapPreq(m, t, kind) ==
  \A k \in (DOMAIN m) \cup (DOMAIN t) :
     RegisterPreq(Get(m, k), Get(t, k), kind)

\* ------------------------------------- in-memory graph jcrdt::ObjectGraph

\* jcrdt::ObjectGraph::new(): no node and no edge.
GraphNew == [n |-> EmptyMap, e |-> EmptyMap]

\* jcrdt::ObjectGraph::node / edge: the value of the register, None if absent.
GraphNode(g, id) == Get(g.n, id).value
GraphEdge(g, id) == Get(g.e, id).value

\* jcrdt::ObjectGraph::apply: every entry of the action is joined into its
\* register.
GraphApply(g, a) ==
  [n |-> MapJoin(g.n, a.n, "node"), e |-> MapJoin(g.e, a.e, "edge")]

\* jcrdt::ObjectGraph::join: pointwise register join.
GraphJoin(g, t) ==
  [n |-> MapJoin(g.n, t.n, "node"), e |-> MapJoin(g.e, t.e, "edge")]

\* jcrdt::ObjectGraph::preq: pointwise register preorder.
GraphPreq(g, t) ==
  MapPreq(g.n, t.n, "node") /\ MapPreq(g.e, t.e, "edge")

\* jcrdt::ObjectGraph::id: the empty action.
GraphId == [n |-> EmptyMap, e |-> EmptyMap]

\* jcrdt::ObjectGraph::comp: per id, the entry with the greater clock wins.
GraphComp(a, b) ==
  [n |-> MapJoin(a.n, b.n, "node"), e |-> MapJoin(a.e, b.e, "edge")]

\* jcrdt::ObjectGraph::action_node / action_edge: a one-entry action.
GraphActionNode(clock, id, value) ==
  [n |-> Insert(EmptyMap, id, Register(clock, value)), e |-> EmptyMap]
GraphActionEdge(clock, id, value) ==
  [n |-> EmptyMap, e |-> Insert(EmptyMap, id, Register(clock, value))]

\* ------------------------------------------------- the persistent graph

(***************************************************************************)
(* A persistent graph c is a record                                        *)
(*   inner  : the in-memory jcrdt::ObjectGraph,                            *)
(*   loaded : [n, e] the two sets of loaded ids,                           *)
(*   db     : [nodes, edges] the two backing tables as the transaction     *)
(*            sees them: a table maps the id column (16 bytes) to the      *)
(*            other columns of the row.                                    *)
(* The operators below are the methods of ObjectGraph: each takes the      *)
(* graph before the call and yields the graph after it (and the returned   *)
(* value, for the methods that return one).                                *)
(***************************************************************************)

EmptyTable == [k \in {} |-> <<>>]

\* The ids that have a row in a table.
RowIds(table) == {u128_from_be_bytes(k) : k \in DOMAIN table}

\* ObjectGraph::new on tables that CREATE TABLE IF NOT EXISTS leaves alone.
new(db) ==
  [inner |-> GraphNew, loaded |-> [n |-> {}, e |-> {}], db |-> db]

\* The row of a node register and the register of a node row.
NodeRow(elem) ==
  [clock |-> u128_to_be_bytes(clock_to_u128(elem.clock)),
   label |-> IF IsSome(elem.value)
             THEN Some(u64_to_be_bytes(Unwrap(elem.value))) ELSE None]

NodeRegister(row) ==
  Register(clock_from_be_bytes(row.clock),
           IF IsSome(row.label)
           THEN Some(u64_from_be_bytes(Unwrap(row.label))) ELSE None)

\* The row of an edge register with the src column left NULL.
EdgeRow_src_null(elem) ==
  [clock |-> u128_to_be_bytes(clock_to_u128(elem.clock)),
   src |-> None,
   label |-> IF IsSome(elem.value)
             THEN Some(u64_to_be_bytes(Unwrap(elem.value)[2])) ELSE None,
   dst |-> IF IsSome(elem.value)
           THEN Some(u128_to_be_bytes(Unwrap(elem.value)[3])) ELSE None]

\* The row of an edge register with the src and dst columns exchanged.
EdgeRow_swapped(elem) ==
  [clock |-> u128_to_be_bytes(clock_to_u128(elem.clock)),
   src |-> IF IsSome(elem.value)
           THEN Some(u128_to_be_bytes(Unwrap(elem.value)[3])) ELSE None,
   label |-> IF IsSome(elem.value)
             THEN Some(u64_to_be_bytes(Unwrap(elem.value)[2])) ELSE None,
   dst |-> IF IsSome(elem.value)
           THEN Some(u128_to_be_bytes(Unwrap(elem.value)[1])) ELSE None]

\* The row of an edge register and the register of an edge row.
EdgeRow(elem) ==
  [clock |-> u128_to_be_bytes(clock_to_u128(elem.clock)),
   src |-> IF IsSome(elem.value)
           THEN Some(u128_to_be_bytes(Unwrap(elem.value)[1])) ELSE None,
   label |-> IF IsSome(elem.value)
             THEN Some(u64_to_be_bytes(Unwrap(elem.value)[2])) ELSE None,
   dst |-> IF IsSome(elem.value)
           THEN Some(u128_to_be_bytes(Unwrap(elem.value)[3])) ELSE None]

EdgeRegister(row) ==
  Register(clock_from_be_bytes(row.clock),
           IF IsSome(row.label)
           THEN Some(<<u128_from_be_bytes(Unwrap(row.src)),
                       u64_from_be_bytes(Unwrap(row.label)),
                       u128_from_be_bytes(Unwrap(row.dst))>>)
           ELSE None)

\* A statement is the sequence of its clauses. SQLite's grammar of a select
\* is SELECT .. FROM table [INDEXED BY index] [WHERE ..]; of a replace,
\* REPLACE INTO table VALUES (..). prepare_cached(..).unwrap() panics on
\* any other statement.
SqlParses(stmt) ==
  stmt \in {<<"SELECT", "FROM">>,
            <<"SELECT", "FROM", "WHERE">>,
            <<"SELECT", "FROM", "INDEXED BY">>,
            <<"SELECT", "FROM", "INDEXED BY", "WHERE">>,
            <<"REPLACE INTO", "VALUES">>}

\* The statements of the three queries, clause by clause.
QueryNodeLabelSql == <<"SELECT", "FROM", "WHERE", "INDEXED BY">>
QueryEdgeSrcSql == <<"SELECT", "FROM", "WHERE", "INDEXED BY">>
QueryEdgeLabelDstSql == <<"SELECT", "FROM", "WHERE", "INDEXED BY">>

\* The outcome of a query: the ids of the matching rows, or a panic.
Panicked == [ok |-> FALSE, ids |-> {}]
Returned(ids) == [ok |-> TRUE, ids |-> ids]

\* query_node_label: the ids of the node rows whose label column is label.
query_node_label(c, label) ==
  IF ~SqlParses(QueryNodeLabelSql) THEN Panicked
  ELSE Returned({u128_from_be_bytes(k) :
         k \in {k \in DOMAIN c.db.nodes :
                  c.db.nodes[k].label = Some(u64_to_be_bytes(label))}})

\* query_edge_src: the ids of the edge rows whose src column is src.
query_edge_src(c, src) ==
  IF ~SqlParses(QueryEdgeSrcSql) THEN Panicked
  ELSE Returned({u128_from_be_bytes(k) :
         k \in {k \in DOMAIN c.db.edges :
                  c.db.edges[k].src = Some(u128_to_be_bytes(src))}})

\* query_edge_label_dst: the ids of the edge rows with that label and dst.
query_edge_label_dst(c, label, dst) ==
  IF ~SqlParses(QueryEdgeLabelDstSql) THEN Panicked
  ELSE Returned({u128_from_be_bytes(k) :
         k \in {k \in DOMAIN c.db.edges :
                  /\ c.db.edges[k].label = Some(u64_to_be_bytes(label))
                  /\ c.db.edges[k].dst = Some(u128_to_be_bytes(dst))}})

\* load_node that never reads the row.
load_node_unread(c, id) ==
  IF id \in c.loaded.n THEN c
  ELSE [c EXCEPT !.loaded.n = @ \cup {id},
                 !.inner.n = Insert(@, id, DefaultRegister)]

\* load_node: the first load of id reads its row, or takes the default.
load_node(c, id) ==
  IF id \in c.loaded.n THEN c
  ELSE LET key == u128_to_be_bytes(id)
           reg == IF key \in DOMAIN c.db.nodes
                  THEN NodeRegister(c.db.nodes[key]) ELSE DefaultRegister
       IN [c EXCEPT !.loaded.n = @ \cup {id},
                    !.inner.n = Insert(@, id, reg)]

\* load_edge
load_edge(c, id) ==
  IF id \in c.loaded.e THEN c
  ELSE LET key == u128_to_be_bytes(id)
           reg == IF key \in DOMAIN c.db.edges
                  THEN EdgeRegister(c.db.edges[key]) ELSE DefaultRegister
       IN [c EXCEPT !.loaded.e = @ \cup {id},
                    !.inner.e = Insert(@, id, reg)]

\* save_node: REPLACE INTO the row of id, if id has a register in memory.
save_node(c, id) ==
  IF id \in DOMAIN c.inner.n
  THEN [c EXCEPT !.db.nodes =
          [k \in (DOMAIN @) \cup {u128_to_be_bytes(id)} |->
             IF k = u128_to_be_bytes(id) THEN NodeRow(c.inner.n[id])
             ELSE @[k]]]
  ELSE c

\* save_edge
save_edge(c, id) ==
  IF id \in DOMAIN c.inner.e
  THEN [c EXCEPT !.db.edges =
          [k \in (DOMAIN @) \cup {u128_to_be_bytes(id)} |->
             IF k = u128_to_be_bytes(id) THEN EdgeRow(c.inner.e[id])
             ELSE @[k]]]
  ELSE c

\* unload_node that leaves the id in the loaded set.
unload_node_marked(c, id) == [c EXCEPT !.inner.n = Remove(@, id)]

\* unload_node / unload_edge
unload_node(c, id) ==
  [c EXCEPT !.inner.n = Remove(@, id), !.loaded.n = @ \ {id}]
unload_edge(c, id) ==
  [c EXCEPT !.inner.e = Remove(@, id), !.loaded.e = @ \ {id}]

\* node / edge: load, then read the in-memory register.
node(c, id) ==
  LET c1 == load_node(c, id) IN [c |-> c1, ret |-> GraphNode(c1.inner, id)]
edge(c, id) ==
  LET c1 == load_edge(c, id) IN [c |-> c1, ret |-> GraphEdge(c1.inner, id)]

\* action_node / action_edge
action_node(clock, id, value) == GraphActionNode(clock, id, value)
action_edge(clock, id, value) == GraphActionEdge(clock, id, value)

\* The loops of loads, saves and unloads. The ids come from the keys of a
\* hash map, in an order the program does not fix.
RECURSIVE LoadNodes(_, _)
LoadNodes(c, ns) ==
  IF ns = {} THEN c
  ELSE LET id == CHOOSE x \in ns : TRUE
       IN LoadNodes(load_node(c, id), ns \ {id})
RECURSIVE LoadEdges(_, _)
LoadEdges(c, es) ==
  IF es = {} THEN c
  ELSE LET id == CHOOSE x \in es : TRUE
       IN LoadEdges(load_edge(c, id), es \ {id})
RECURSIVE SaveNodes(_, _)
SaveNodes(c, ns) ==
  IF ns = {} THEN c
  ELSE LET id == CHOOSE x \in ns : TRUE
       IN SaveNodes(save_node(c, id), ns \ {id})
RECURSIVE SaveEdges(_, _)
SaveEdges(c, es) ==
  IF es = {} THEN c
  ELSE LET id == CHOOSE x \in es : TRUE
       IN SaveEdges(save_edge(c, id), es \ {id})
RECURSIVE UnloadNodes(_, _)
UnloadNodes(c, ns) ==
  IF ns = {} THEN c
  ELSE LET id == CHOOSE x \in ns : TRUE
       IN UnloadNodes(unload_node(c, id), ns \ {id})
RECURSIVE UnloadEdges(_, _)
UnloadEdges(c, es) ==
  IF es = {} THEN c
  ELSE LET id == CHOOSE x \in es : TRUE
       IN UnloadEdges(unload_edge(c, id), es \ {id})

\* loads / saves / unloads: the nodes first, then the edges.
loads(c, ns, es) == LoadEdges(LoadNodes(c, ns), es)
saves(c, ns, es) == SaveEdges(SaveNodes(c, ns), es)
unloads(c, ns, es) == UnloadEdges(UnloadNodes(c, ns), es)

\* free that also empties the tables.
free_dropping_rows(c) ==
  [c EXCEPT !.inner = GraphNew, !.loaded = [n |-> {}, e |-> {}],
            !.db = [nodes |-> EmptyTable, edges |-> EmptyTable]]

\* free: a new in-memory graph and empty loaded sets.
free(c) == [c EXCEPT !.inner = GraphNew, !.loaded = [n |-> {}, e |-> {}]]

\* apply without the write-through.
apply_unsaved(c, a) ==
  LET c1 == loads(c, DOMAIN a.n, DOMAIN a.e)
  IN [c1 EXCEPT !.inner = GraphApply(@, a)]

\* PersistentState::apply: load the ids of the action, apply, save them.
apply(c, a) ==
  LET ns == DOMAIN a.n
      es == DOMAIN a.e
      c1 == loads(c, ns, es)
      c2 == [c1 EXCEPT !.inner = GraphApply(@, a)]
  IN saves(c2, ns, es)

\* comp that composes the nodes and keeps the edges of the first action.
comp_nodes_only(a, b) == [GraphComp(a, b) EXCEPT !.e = a.e]

\* PersistentState::id / comp
action_id == GraphId
comp(a, b) == GraphComp(a, b)

\* PersistentJoinable::preq: load the ids of t, compare in memory.
preq(c, t) ==
  LET c1 == loads(c, DOMAIN t.n, DOMAIN t.e)
  IN [c |-> c1, ret |-> GraphPreq(c1.inner, t)]

\* join that writes the rows back before it merges.
join_save_first(c, t) ==
  LET c1 == saves(loads(c, DOMAIN t.n, DOMAIN t.e), DOMAIN t.n, DOMAIN t.e)
  IN [c1 EXCEPT !.inner = GraphJoin(@, t)]

\* PersistentJoinable::join: load the ids of t, join, save them.
join(c, t) ==
  LET ns == DOMAIN t.n
      es == DOMAIN t.e
      c1 == loads(c, ns, es)
      c2 == [c1 EXCEPT !.inner = GraphJoin(@, t)]
  IN saves(c2, ns, es)

\* ------------------------------------------- when the store fails

(***************************************************************************)
(* Every statement is prepared and run with .unwrap(): when the store      *)
(* fails, the method panics where it stands. The operators below yield the *)
(* graph the panic leaves behind and whether the call panicked; a call     *)
(* that issues no statement cannot fail.                                   *)
(***************************************************************************)
Done(c) == [c |-> c, panic |-> FALSE]
Panic(c) == [c |-> c, panic |-> TRUE]

\* load_node / load_edge: the id enters the loaded set before the row is
\* read.
load_node_failing(c, id) ==
  IF id \in c.loaded.n THEN Done(c)
  ELSE Panic([c EXCEPT !.loaded.n = @ \cup {id}])
load_edge_failing(c, id) ==
  IF id \in c.loaded.e THEN Done(c)
  ELSE Panic([c EXCEPT !.loaded.e = @ \cup {id}])

\* save_node / save_edge: the row is not replaced.
save_node_failing(c, id) ==
  IF id \in DOMAIN c.inner.n THEN Panic(c) ELSE Done(c)
save_edge_failing(c, id) ==
  IF id \in DOMAIN c.inner.e THEN Panic(c) ELSE Done(c)

\* An id of a batch with its kind: <<"n", id>> or <<"e", id>>.
load_item(c, it) ==
  IF it[1] = "n" THEN load_node(c, it[2]) ELSE load_edge(c, it[2])
save_item(c, it) ==
  IF it[1] = "n" THEN save_node(c, it[2]) ELSE save_edge(c, it[2])
load_item_failing(c, it) ==
  IF it[1] = "n" THEN load_node_failing(c, it[2])
  ELSE load_edge_failing(c, it[2])
save_item_failing(c, it) ==
  IF it[1] = "n" THEN save_node_failing(c, it[2])
  ELSE save_edge_failing(c, it[2])

\* loads that gives up the whole batch when the store fails.
RECURSIVE loads_failing_atomic(_, _, _)
loads_failing_atomic(c, batch, k) ==
  IF batch = <<>> THEN Done(c)
  ELSE IF k = 1 THEN
    LET r == load_item_failing(c, Head(batch))
    IN IF r.panic THEN r ELSE loads_failing_atomic(r.c, Tail(batch), 0)
  ELSE LET r == loads_failing_atomic(load_item(c, Head(batch)),
                                     Tail(batch), k - 1)
       IN IF r.panic THEN Panic(c) ELSE r

\* loads / saves over the ids of the batch in their order, the store
\* failing at the k-th (k = 0: the store does not fail).
RECURSIVE loads_failing(_, _, _)
loads_failing(c, batch, k) ==
  IF batch = <<>> THEN Done(c)
  ELSE IF k = 1 THEN
    LET r == load_item_failing(c, Head(batch))
    IN IF r.panic THEN r ELSE loads_failing(r.c, Tail(batch), 0)
  ELSE loads_failing(load_item(c, Head(batch)), Tail(batch), k - 1)
RECURSIVE saves_failing(_, _, _)
saves_failing(c, batch, k) ==
  IF batch = <<>> THEN Done(c)
  ELSE IF k = 1 THEN
    LET r == save_item_failing(c, Head(batch))
    IN IF r.panic THEN r ELSE saves_failing(r.c, Tail(batch), 0)
  ELSE saves_failing(save_item(c, Head(batch)), Tail(batch), k - 1)

\* apply / join, the store failing at the k-th id of the loads ("load") or
\* of the saves ("save"); both loops run over the same vectors of ids.
apply_failing(c, a, batch, phase, k) ==
  LET l == loads_failing(c, batch, IF phase = "load" THEN k ELSE 0)
  IN IF l.panic THEN l
     ELSE saves_failing([l.c EXCEPT !.inner = GraphApply(@, a)], batch,
                        IF phase = "save" THEN k ELSE 0)
join_failing(c, t, batch, phase, k) ==
  LET l == loads_failing(c, batch, IF phase = "load" THEN k ELSE 0)
  IN IF l.panic THEN l
     ELSE saves_failing([l.c EXCEPT !.inner = GraphJoin(@, t)], batch,
                        IF phase = "save" THEN k ELSE 0)

\* ------------------------------------------------ the schema compiler

\* The low HashBits bits of the 64-bit label hash are kept: multiplication
\* and exclusive or commute with the truncation.
HashBits == 16

\* PRIME = 1099511628211 and BASIS = 14695981039346656037, reduced modulo
\* 2^17; the hash reduces them further to HashBits bits.
PRIME == 435
BASIS == 8997

\* Exclusive or of two naturals.
RECURSIVE Xor(_, _)
Xor(x, y) ==
  IF x = 0 THEN y
  ELSE IF y = 0 THEN x
  ELSE 2 * Xor(x \div 2, y \div 2) + (((x % 2) + (y % 2)) % 2)

\* fnv64_hash of a string, given as the sequence of its bytes.
RECURSIVE fnv64_hash_from(_, _)
fnv64_hash_from(res, bytes) ==
  IF bytes = <<>> THEN res
  ELSE fnv64_hash_from(Xor((res * (PRIME % (2 ^ HashBits))) % (2 ^ HashBits),
                           Head(bytes)),
                       Tail(bytes))
fnv64_hash(bytes) == fnv64_hash_from(BASIS % (2 ^ HashBits), bytes)

\* The wrappers a field type is matched against.
ATOM == "Atom"
LINK == "Link"
ATOM_OPTION == "AtomOption"
LINK_OPTION == "LinkOption"
MULTILINKS == "Multilinks"
BACKLINKS == "Backlinks"
ScalarKinds == {ATOM, LINK, ATOM_OPTION, LINK_OPTION}

\* "." in format!("{}.{}", struct_name, name).
Dot == <<46>>

\* A field as convert_field parses it: its name and its type (a kind; a
\* Multilinks or Backlinks type carries its label).
Field(name, kind, label) == [name |-> name, kind |-> kind, label |-> label]

\* The label constants create_labels_for_struct emits: LABEL of the struct
\* and <FIELD>_LABEL of each field, computed when the struct is compiled.
Struct(name, fields) ==
  [name |-> name,
   LABEL |-> fnv64_hash(name),
   fields |-> [k \in DOMAIN fields |->
     [name |-> fields[k].name, kind |-> fields[k].kind,
      label |-> fields[k].label,
      LABEL |-> fnv64_hash(name \o Dot \o fields[k].name)]]]
StructLabel(s) == s.LABEL
FieldLabel(s, f) == f.LABEL

\* ------------------------------------- items handed to the compiler

(***************************************************************************)
(* An item is what syn parses of the struct: its name, the shape of its    *)
(* fields (named, tuple or unit), the number of its generic parameters     *)
(* and its fields. A field has an identifier (None in a tuple struct), a   *)
(* type and attributes. A type is a path, with the identifier of its last  *)
(* segment and what its angle brackets end with ("type", "lifetime", or    *)
(* "none" without brackets), or another kind of type. An attribute has a   *)
(* style, a name, and the string its arguments parse to, if they do.       *)
(***************************************************************************)

\* "id"
ID == <<105, 100>>

\* The outcome of a conversion: the converted value, or a panic of the
\* macro, which fails the build.
Rejected == [ok |-> FALSE]
Converted(v) == [ok |-> TRUE, val |-> v]

\* try_match_type: the inner type, if ty is wrapper_name<.., T>.
try_match_type(wrapper_name, ty) ==
  IF ty.kind = "path" /\ ty.ident = wrapper_name /\ ty.args = "type"
  THEN Some(ty.inner) ELSE None

\* try_get_attr_value: the string of the first outer attribute of that name.
RECURSIVE try_get_attr_value(_, _)
try_get_attr_value(attr_name, attrs) ==
  IF attrs = <<>> THEN None
  ELSE IF Head(attrs).style = "outer" /\ Head(attrs).name = attr_name
  THEN Head(attrs).lit
  ELSE try_get_attr_value(attr_name, Tail(attrs))

\* The type of a field, as convert_field matches it.
field_type(struct_name, field) ==
  IF IsSome(try_match_type(ATOM, field.ty))
  THEN Converted([kind |-> ATOM, label |-> 0])
  ELSE IF IsSome(try_match_type(LINK, field.ty))
  THEN Converted([kind |-> LINK, label |-> 0])
  ELSE IF IsSome(try_match_type(ATOM_OPTION, field.ty))
  THEN Converted([kind |-> ATOM_OPTION, label |-> 0])
  ELSE IF IsSome(try_match_type(LINK_OPTION, field.ty))
  THEN Converted([kind |-> LINK_OPTION, label |-> 0])
  ELSE IF IsSome(try_match_type(MULTILINKS, field.ty))
  THEN Converted([kind |-> MULTILINKS,
                  label |-> fnv64_hash(struct_name \o Dot
                                       \o Unwrap(field.ident))])
  ELSE IF IsSome(try_match_type(BACKLINKS, field.ty))
  THEN LET label_name == try_get_attr_value("backlink", field.attrs)
       IN IF IsSome(label_name)
          THEN Converted([kind |-> BACKLINKS,
                          label |-> fnv64_hash(Unwrap(label_name))])
          ELSE Rejected
  ELSE Rejected

\* convert_field that lets a field be named id.
convert_field_any_name(struct_name, field) ==
  IF ~IsSome(field.ident) THEN Rejected
  ELSE LET ty == field_type(struct_name, field)
       IN IF ~ty.ok THEN Rejected
          ELSE Converted(Field(Unwrap(field.ident), ty.val.kind,
                               ty.val.label))

\* convert_field
convert_field(struct_name, field) ==
  IF ~IsSome(field.ident) THEN Rejected
  ELSE LET ty == field_type(struct_name, field)
       IN IF ~ty.ok THEN Rejected
          ELSE IF Unwrap(field.ident) = ID THEN Rejected
          ELSE Converted(Field(Unwrap(field.ident), ty.val.kind,
                               ty.val.label))

\* The fields of a named struct, converted in their order.
RECURSIVE convert_fields(_, _)
convert_fields(struct_name, fields) ==
  IF fields = <<>> THEN Converted(<<>>)
  ELSE LET f == convert_field(struct_name, Head(fields))
       IN IF ~f.ok THEN Rejected
          ELSE LET rest == convert_fields(struct_name, Tail(fields))
               IN IF ~rest.ok THEN Rejected
                  ELSE Converted(<<f.val>> \o rest.val)

\* convert_struct
convert_struct(item) ==
  LET fields == IF item.shape = "named"
                THEN convert_fields(item.name, item.fields)
                ELSE IF item.shape = "tuple" THEN Rejected
                ELSE Converted(<<>>)
  IN IF ~fields.ok THEN Rejected
     ELSE IF item.generics # 0 THEN Rejected
     ELSE Converted(Struct(item.name, fields.val))

\* model_impl: the code generated for a struct; model: the macro.
model_impl(s) == [struct |-> s, fns |-> {"create", "get", "id"}]
model(item) ==
  LET s == convert_struct(item)
  IN IF s.ok THEN Converted(model_impl(s.val)) ELSE Rejected

\* ---------------------------------------------------- the ambient store

(***************************************************************************)
(* The store global::access_store_with hands to the generated code: an     *)
(* in-memory graph g, the atom payloads stored on destination nodes, the   *)
(* clock of the last write and the number of ids minted so far.            *)
(***************************************************************************)
StoreNew == [g |-> GraphNew, atoms |-> EmptyTable, clock |-> 0, minted |-> 0]

\* store.set_node / set_edge / set_atom: a write with a new clock.
set_node(st, i, value) ==
  [st EXCEPT !.clock = @ + 1,
             !.g = GraphApply(@, GraphActionNode(st.clock + 1, i, value))]
set_edge(st, i, value) ==
  [st EXCEPT !.clock = @ + 1,
             !.g = GraphApply(@, GraphActionEdge(st.clock + 1, i, value))]
set_atom(st, i, value) ==
  [st EXCEPT !.clock = @ + 1,
             !.atoms = [k \in (DOMAIN @) \cup {i} |->
                          IF k = i THEN value ELSE @[k]]]

\* store.node / store.edge: the present value of the register.
store_node(st, i) == GraphNode(st.g, i)
store_edge(st, i) == GraphEdge(st.g, i)

\* store.query_edge_src: the edges whose present value has source i.
store_query_edge_src(st, i) ==
  {e \in DOMAIN st.g.e :
     IsSome(st.g.e[e].value) /\ Unwrap(st.g.e[e].value)[1] = i}

\* rng.gen(): the k-th id minted from now on; ids never repeat.
rng_gen(st, k) == st.minted + k
Minted(st, k) == [st EXCEPT !.minted = @ + k]

\* postcard::to_allocvec of a string: its length, then its bytes.
to_allocvec(v) == <<Len(v)>> \o v
from_bytes(bs) == SubSeq(bs, 2, 1 + bs[1])

\* ------------------------------------------------- the generated code

\* create_body that writes no edge for an option given as None.
create_body_skip_none(st, s, f, i, param) ==
  IF f.kind = ATOM \/ (f.kind = ATOM_OPTION /\ IsSome(param)) THEN
    LET v == IF f.kind = ATOM THEN param ELSE Unwrap(param)
        s1 == set_edge(Minted(st, 2), rng_gen(st, 2),
                       Some(<<i, FieldLabel(s, f), rng_gen(st, 1)>>))
    IN set_atom(s1, rng_gen(st, 1), Some(to_allocvec(v)))
  ELSE IF f.kind = LINK \/ (f.kind = LINK_OPTION /\ IsSome(param)) THEN
    set_edge(Minted(st, 1), rng_gen(st, 1),
             Some(<<i, FieldLabel(s, f),
                    IF f.kind = LINK THEN param ELSE Unwrap(param)>>))
  ELSE st

\* create_create_fn_body: the writes of one field, given its parameter.
create_body(st, s, f, i, param) ==
  IF f.kind = ATOM THEN
    LET dst == rng_gen(st, 1)
        e == rng_gen(st, 2)
        s1 == set_edge(Minted(st, 2), e, Some(<<i, FieldLabel(s, f), dst>>))
    IN set_atom(s1, dst, Some(to_allocvec(param)))
  ELSE IF f.kind = LINK THEN
    set_edge(Minted(st, 1), rng_gen(st, 1),
             Some(<<i, FieldLabel(s, f), param>>))
  ELSE IF f.kind = ATOM_OPTION THEN
    IF IsSome(param) THEN
      LET dst == rng_gen(st, 1)
          e == rng_gen(st, 2)
          s1 == set_edge(Minted(st, 2), e,
                         Some(<<i, FieldLabel(s, f), dst>>))
      IN set_atom(s1, dst, Some(to_allocvec(Unwrap(param))))
    ELSE
      set_edge(Minted(st, 2), rng_gen(st, 1),
               Some(<<i, FieldLabel(s, f), rng_gen(st, 2)>>))
  ELSE IF f.kind = LINK_OPTION THEN
    IF IsSome(param) THEN
      set_edge(Minted(st, 1), rng_gen(st, 1),
               Some(<<i, FieldLabel(s, f), Unwrap(param)>>))
    ELSE
      set_edge(Minted(st, 2), rng_gen(st, 1),
               Some(<<i, FieldLabel(s, f), rng_gen(st, 2)>>))
  ELSE st

\* The bodies of the fields k.. of s, in the order of the fields.
RECURSIVE create_bodies(_, _, _, _, _)
create_bodies(st, s, i, params, k) ==
  IF k > Len(s.fields) THEN st
  ELSE create_bodies(create_body(st, s, s.fields[k], i, params[k]),
                     s, i, params, k + 1)

\* create_get_fn_match_arms: the slots after an edge with that label is met.
match_arms(s, slots, label, dst, e) ==
  LET hits == {k \in DOMAIN s.fields :
                 /\ s.fields[k].kind \in ScalarKinds
                 /\ FieldLabel(s, s.fields[k]) = label}
  IN IF hits = {} THEN slots
     ELSE LET k == CHOOSE h \in hits : \A o \in hits : h <= o
          IN [slots EXCEPT ![k] =
                Some(IF s.fields[k].kind \in {ATOM, ATOM_OPTION}
                     THEN [kind |-> s.fields[k].kind, raw |-> <<dst>>]
                     ELSE [kind |-> s.fields[k].kind, raw |-> <<e>>])]

\* The loop of get over the edges the query returned, in their order: None
\* when an edge has no value, else the slots.
RECURSIVE scan_edges(_, _, _, _)
scan_edges(st, s, order, slots) ==
  IF order = <<>> THEN Some(slots)
  ELSE LET ev == store_edge(st, Head(order))
       IN IF ~IsSome(ev) THEN None
          ELSE scan_edges(st, s, Tail(order),
                 match_arms(s, slots, Unwrap(ev)[2], Unwrap(ev)[3],
                            Head(order)))

\* ctor_args that asks only for the slots of the Atom and Link fields.
ctor_args_lenient(s, i, slots) ==
  IF \E k \in DOMAIN s.fields :
       s.fields[k].kind \in {ATOM, LINK} /\ ~IsSome(slots[k])
  THEN None
  ELSE Some([id |-> i,
             fields |-> [k \in DOMAIN s.fields |->
                IF s.fields[k].kind \in ScalarKinds
                THEN IF IsSome(slots[k]) THEN Unwrap(slots[k])
                     ELSE [kind |-> s.fields[k].kind, raw |-> <<>>]
                ELSE [kind |-> s.fields[k].kind,
                      raw |-> <<i, s.fields[k].label>>]]])

\* create_get_fn_ctor_args: the entity of the slots, None when the slot of a
\* scalar or link field is empty.
ctor_args(s, i, slots) ==
  IF \E k \in DOMAIN s.fields :
       s.fields[k].kind \in ScalarKinds /\ ~IsSome(slots[k])
  THEN None
  ELSE Some([id |-> i,
             fields |-> [k \in DOMAIN s.fields |->
                IF s.fields[k].kind \in ScalarKinds THEN Unwrap(slots[k])
                ELSE [kind |-> s.fields[k].kind,
                      raw |-> <<i, s.fields[k].label>>]]])

\* create_get_fn: get(id), the query returning its edges in order.
get(st, s, i, order) ==
  IF ~IsSome(store_node(st, i)) THEN None
  ELSE LET slots == scan_edges(st, s, order, [k \in DOMAIN s.fields |-> None])
       IN IF ~IsSome(slots) THEN None ELSE ctor_args(s, i, Unwrap(slots))

\* The body of create inside the store scope: mint the id, write the node
\* and every field.
create_writes(st, s, params) ==
  LET i == rng_gen(st, 1)
      s1 == set_node(Minted(st, 1), i, Some(StructLabel(s)))
  IN [st |-> create_bodies(s1, s, i, params, 1), id |-> i]

\* Self::get(id).unwrap(): the entity, or a panic on None.
unwrap_get(got) == [panic |-> ~IsSome(got), val |-> got]

\* The orders in which an iterator may yield the members of a set.
RECURSIVE Orders(_)
Orders(S) ==
  IF S = {} THEN {<<>>}
  ELSE UNION {{<<x>> \o o : o \in Orders(S \ {x})} : x \in S}

\* ------------------------------------- the generated code, step by step

(***************************************************************************)
(* The calls a generated create or get makes, in the order it makes them.  *)
(* access_store_with opens a store scope and runs the closure; "end" is    *)
(* the closure returning, which closes the scope. The other calls are      *)
(* methods of the store handed to the closure, the id generator, postcard, *)
(* the generated Model::id (which returns self.id) and the from_raw        *)
(* constructors of the views: none of them enters the accessor.            *)
(***************************************************************************)
OpenScope == "global::access_store_with"
EndScope == "end"

\* create_create_fn_body, as calls: the arguments of a call before the call.
body_steps(f, param) ==
  LET atom == <<"rng.gen", "rng.gen", "store.set_edge",
                "postcard::to_allocvec", "store.set_atom">>
      link == <<"rng.gen", "Model::id", "store.set_edge">>
      none == <<"rng.gen", "rng.gen", "store.set_edge">>
  IN IF f.kind = ATOM THEN atom
     ELSE IF f.kind = LINK THEN link
     ELSE IF f.kind = ATOM_OPTION THEN IF IsSome(param) THEN atom ELSE none
     ELSE IF f.kind = LINK_OPTION THEN IF IsSome(param) THEN link ELSE none
     ELSE <<>>

\* The bodies of the fields k.. of s.
RECURSIVE bodies_steps(_, _, _)
bodies_steps(s, params, k) ==
  IF k > Len(s.fields) THEN <<>>
  ELSE body_steps(s.fields[k], params[k]) \o bodies_steps(s, params, k + 1)

\* The loop of get: store.edge for each edge, then the from_raw of the arm
\* the label matches; the loop ends at an edge with no value.
RECURSIVE loop_steps(_, _, _)
loop_steps(st, s, order) ==
  IF order = <<>> THEN <<>>
  ELSE LET ev == store_edge(st, Head(order))
       IN IF ~IsSome(ev) THEN <<"store.edge">>
          ELSE <<"store.edge">>
               \o (IF \E k \in DOMAIN s.fields :
                        /\ s.fields[k].kind \in ScalarKinds
                        /\ FieldLabel(s, s.fields[k]) = Unwrap(ev)[2]
                   THEN <<"from_raw">> ELSE <<>>)
               \o loop_steps(st, s, Tail(order))

\* The constructor arguments of get for the fields k..: a view is built with
\* from_raw, an empty slot returns None on the spot.
RECURSIVE ctor_steps(_, _, _)
ctor_steps(s, slots, k) ==
  IF k > Len(s.fields) THEN <<>>
  ELSE IF s.fields[k].kind \in ScalarKinds
       THEN IF IsSome(slots[k]) THEN ctor_steps(s, slots, k + 1) ELSE <<>>
       ELSE <<"from_raw">> \o ctor_steps(s, slots, k + 1)

\* create_get_fn: get(id) as calls; every way out of the closure, the ?s
\* included, closes the scope.
get_steps(st, s, i, order) ==
  LET slots == scan_edges(st, s, order, [k \in DOMAIN s.fields |-> None])
  IN <<OpenScope, "store.node">>
     \o (IF ~IsSome(store_node(st, i)) THEN <<>>
         ELSE <<"store.query_edge_src">> \o loop_steps(st, s, order)
              \o (IF IsSome(slots) THEN ctor_steps(s, Unwrap(slots), 1)
                  ELSE <<>>))
     \o <<EndScope>>

\* create that reads the entity back before its closure returns.
create_steps_get_inside(st, s, params, order) ==
  LET w == create_writes(st, s, params)
  IN <<"rand::thread_rng", "rng.gen", OpenScope, "store.set_node">>
     \o bodies_steps(s, params, 1)
     \o get_steps(w.st, s, w.id, order)
     \o <<EndScope, "unwrap">>

\* create_create_fn: create(..) as calls; Self::get(id) comes after the
\* closure has returned.
create_steps(st, s, params, order) ==
  LET w == create_writes(st, s, params)
  IN <<"rand::thread_rng", "rng.gen", OpenScope, "store.set_node">>
     \o bodies_steps(s, params, 1)
     \o <<EndScope>>
     \o get_steps(w.st, s, w.id, order)
     \o <<"unwrap">>

\* --------------------------------------------------------------- state

VARIABLES
  pg,     \* pg[r]: the persistent graph of replica r and its tables
  ref,    \* ref[r]: a plain in-memory graph given the same apply and join
  hist,   \* per id, the clocks written so far and the write of the greatest
  sync,   \* how far two replicas are in exchanging their states
  law,    \* the operands and results of a check of the composition laws
  gen,    \* the ambient store, the entity struct and the last returned value
  build,  \* an item handed to the #[model] macro and what the build made of it
  call    \* a generated create or get under way: its steps and open scopes

vars == <<pg, ref, hist, sync, law, gen, build, call>>
aux == <<hist, sync, law, gen, build, call>>

\* The registers and the actions (and states to join) the model draws from.
NodeRegisters ==
  {Register(c, v) : c \in Clocks, v \in {None} \cup {Some(l) : l \in Labels}}
EdgeRegisters ==
  {Register(c, v) :
     c \in Clocks, v \in {None} \cup {Some(t) : t \in EdgeValues}}
NodeActions ==
  {action_node(r.clock, i, r.value) : r \in NodeRegisters, i \in NodeIds}
EdgeActions ==
  {action_edge(r.clock, i, r.value) : r \in EdgeRegisters, i \in EdgeIds}
\* Actions of two entries: a node and an edge, or two nodes.
PairActions ==
  {comp(action_node(c, 1, Some(1)), action_edge(c, 3, Some(<<1, 1, 2>>))) :
     c \in Clocks}
  \cup {comp(action_node(c, 1, None), action_node(c, 2, Some(2))) :
     c \in Clocks}
Actions == {action_id} \cup NodeActions \cup EdgeActions \cup PairActions
\* A state to join is a jcrdt::ObjectGraph: the same two maps.
States == Actions

\* No write recorded, no exchange begun, no law under check.
NoHist ==
  [used |-> [i \in NodeIds \cup EdgeIds |-> {}],
   top |-> [i \in NodeIds \cup EdgeIds |-> DefaultRegister]]
NoSync == [stage |-> "apply", snap |-> None]
NoLaw == [pc |-> "none", a |-> action_id, b |-> action_id, c |-> action_id,
          out |-> None]

NoRet == [op |-> "none"]
NoGen ==
  [schema |-> Struct(<<>>, <<>>), store |-> StoreNew, edits |-> 0,
   ret |-> NoRet]

\* No item handed to the macro.
NoBuild == [item |-> None, out |-> None]

\* No generated function under way.
NoCall ==
  [fn |-> "none", steps |-> <<>>, done |-> <<>>, depth |-> 0,
   failed |-> FALSE, after |-> StoreNew]

InitGraphs ==
  /\ pg = [r \in Replicas |-> new([nodes |-> EmptyTable, edges |-> EmptyTable])]
  /\ ref = [r \in Replicas |-> GraphNew]

Init ==
  /\ InitGraphs
  /\ hist = NoHist
  /\ sync = NoSync
  /\ law = NoLaw
  /\ gen = NoGen
  /\ build = NoBuild
  /\ call = NoCall

\* ------------------------------------------------------------- actions

\* The calls on replica r.
DoApply(r, a) ==
  /\ pg' = [pg EXCEPT ![r] = apply(@, a)]
  /\ ref' = [ref EXCEPT ![r] = GraphApply(@, a)]
DoJoin(r, t) ==
  /\ pg' = [pg EXCEPT ![r] = join(@, t)]
  /\ ref' = [ref EXCEPT ![r] = GraphJoin(@, t)]
DoPreq(r, t) ==
  /\ pg' = [pg EXCEPT ![r] = preq(@, t).c]
  /\ UNCHANGED ref
DoCall(r, c) ==
  /\ pg' = [pg EXCEPT ![r] = c]
  /\ UNCHANGED ref

Apply(a) == DoApply("A", a) /\ UNCHANGED aux
Join(t) == DoJoin("A", t) /\ UNCHANGED aux
Preq(t) == DoPreq("A", t) /\ UNCHANGED aux
LoadNode(i) == DoCall("A", load_node(pg["A"], i)) /\ UNCHANGED aux
LoadEdge(i) == DoCall("A", load_edge(pg["A"], i)) /\ UNCHANGED aux
SaveNode(i) == DoCall("A", save_node(pg["A"], i)) /\ UNCHANGED aux
SaveEdge(i) == DoCall("A", save_edge(pg["A"], i)) /\ UNCHANGED aux
UnloadNode(i) == DoCall("A", unload_node(pg["A"], i)) /\ UNCHANGED aux
UnloadEdge(i) == DoCall("A", unload_edge(pg["A"], i)) /\ UNCHANGED aux
Node(i) == DoCall("A", node(pg["A"], i).c) /\ UNCHANGED aux
Edge(i) == DoCall("A", edge(pg["A"], i).c) /\ UNCHANGED aux
Loads(ns, es) == DoCall("A", loads(pg["A"], ns, es)) /\ UNCHANGED aux
Saves(ns, es) == DoCall("A", saves(pg["A"], ns, es)) /\ UNCHANGED aux
Unloads(ns, es) == DoCall("A", unloads(pg["A"], ns, es)) /\ UNCHANGED aux
Free == DoCall("A", free(pg["A"])) /\ UNCHANGED aux

Next ==
  \/ \E a \in Actions : Apply(a)
  \/ \E t \in States : Join(t)
  \/ \E t \in States : Preq(t)
  \/ \E i \in NodeIds : LoadNode(i)
  \/ \E i \in EdgeIds : LoadEdge(i)
  \/ \E i \in NodeIds : SaveNode(i)
  \/ \E i \in EdgeIds : SaveEdge(i)
  \/ \E i \in NodeIds : UnloadNode(i)
  \/ \E i \in EdgeIds : UnloadEdge(i)
  \/ \E i \in NodeIds : Node(i)
  \/ \E i \in EdgeIds : Edge(i)
  \/ \E ns \in SUBSET NodeIds, es \in SUBSET EdgeIds : Loads(ns, es)
  \/ \E ns \in SUBSET NodeIds, es \in SUBSET EdgeIds : Saves(ns, es)
  \/ \E ns \in SUBSET NodeIds, es \in SUBSET EdgeIds : Unloads(ns, es)
  \/ Free

Spec == Init /\ [][Next]_vars

\* ------------------------------------- writes with distinct clocks

\* The ids and the actions of the runs that write every id with pairwise
\* distinct clocks.
LwwNodeIds == {1}
LwwEdgeIds == {3}
LwwActions ==
  {a \in Actions : DOMAIN a.n \subseteq LwwNodeIds} \ {action_id}

\* The entries of an action or state, as a map from all its ids.
Entries(a) ==
  [i \in (DOMAIN a.n) \cup (DOMAIN a.e) |->
     IF i \in DOMAIN a.n THEN a.n[i] ELSE a.e[i]]

\* No entry of a carries a clock already written to its id.
FreshClocks(a) ==
  \A i \in DOMAIN Entries(a) : Entries(a)[i].clock \notin hist.used[i]

\* The history after the entries of a are written.
Written(a) ==
  [used |-> [i \in DOMAIN hist.used |->
               IF i \in DOMAIN Entries(a)
               THEN hist.used[i] \cup {Entries(a)[i].clock}
               ELSE hist.used[i]],
   top |-> [i \in DOMAIN hist.top |->
              IF /\ i \in DOMAIN Entries(a)
                 /\ \A k \in hist.used[i] : k < Entries(a)[i].clock
              THEN Entries(a)[i]
              ELSE hist.top[i]]]

LwwApply(a) ==
  /\ FreshClocks(a)
  /\ DoApply("A", a)
  /\ hist' = Written(a)
  /\ UNCHANGED <<sync, law, gen, build, call>>
LwwJoin(t) ==
  /\ FreshClocks(t)
  /\ DoJoin("A", t)
  /\ hist' = Written(t)
  /\ UNCHANGED <<sync, law, gen, build, call>>

NextLww ==
  \/ \E a \in LwwActions : LwwApply(a)
  \/ \E t \in LwwActions : LwwJoin(t)
  \/ \E i \in LwwNodeIds : Node(i)
  \/ \E i \in LwwEdgeIds : Edge(i)
  \/ \E i \in LwwNodeIds : UnloadNode(i)
  \/ \E i \in LwwEdgeIds : UnloadEdge(i)
  \/ Free

SpecLww == Init /\ [][NextLww]_vars

\* ----------------------------------------- two replicas exchanging states

\* The state a replica hands to another: the registers of its tables.
StateOf(c) ==
  loads(free(c), RowIds(c.db.nodes), RowIds(c.db.edges)).inner

\* What each replica writes on its own.
ConvActions ==
  {a \in LwwActions :
     \A i \in DOMAIN a.e : a.e[i].value \in {None, Some(<<1, 1, 2>>)}}

Other(r) == IF r = "A" THEN "B" ELSE "A"

\* The exchange after replica r has joined the state of the other one.
Joined(r) ==
  LET mine == IF r = "A" THEN "ab" ELSE "ba"
  IN IF sync.stage = "apply"
     THEN [stage |-> mine,
           snap |-> Some([A |-> StateOf(pg["A"]), B |-> StateOf(pg["B"])])]
     ELSE IF sync.stage = mine THEN sync
     ELSE [sync EXCEPT !.stage = "both"]

ConvApply(r, a) ==
  /\ DoApply(r, a)
  /\ sync' = NoSync
  /\ UNCHANGED <<hist, law, gen, build, call>>
\* The states of replica r another replica may be handed: its state now, or
\* the one it had when the exchange began.
Offered(r) ==
  {StateOf(pg[r])} \cup
  (IF IsSome(sync.snap) THEN {Unwrap(sync.snap)[r]} ELSE {})

ConvJoin(r) ==
  /\ \E t \in Offered(Other(r)) : DoJoin(r, t)
  /\ sync' = Joined(r)
  /\ UNCHANGED <<hist, law, gen, build, call>>

NextConv ==
  \/ \E r \in Replicas, a \in ConvActions : ConvApply(r, a)
  \/ \E r \in Replicas : ConvJoin(r)

SpecConv == Init /\ [][NextConv]_vars

\* ------------------------------------------------- the composition laws

\* The operands of the laws.
CompActions == {action_id} \cup ConvActions

InitComp ==
  /\ InitGraphs
  /\ hist = NoHist
  /\ sync = NoSync
  /\ law \in [pc : {"start"}, a : CompActions, b : CompActions,
               c : CompActions, out : {None}]
  /\ gen = NoGen
  /\ build = NoBuild
  /\ call = NoCall

\* Some graph state to apply the composition to: c applied and unloaded.
CompBase ==
  /\ law.pc = "start"
  /\ DoApply("A", law.c)
  /\ law' = [law EXCEPT !.pc = "base"]
  /\ UNCHANGED <<hist, sync, gen, build, call>>
CompFree ==
  /\ law.pc = "base"
  /\ DoCall("A", free(pg["A"]))
  /\ UNCHANGED aux

\* Both sides of every law; the graph goes on with comp(a, b) applied.
CompLaws ==
  /\ law.pc = "base"
  /\ DoApply("A", comp(law.a, law.b))
  /\ law' = [law EXCEPT
       !.pc = "done",
       !.out = Some([left |-> comp(law.a, comp(law.b, law.c)),
                     right |-> comp(comp(law.a, law.b), law.c),
                     idl |-> comp(action_id, law.a),
                     idr |-> comp(law.a, action_id),
                     seq |-> apply(apply(pg["A"], law.a), law.b)])]
  /\ UNCHANGED <<hist, sync, gen, build, call>>

NextComp == CompBase \/ CompFree \/ CompLaws

SpecComp == InitComp /\ [][NextComp]_vars

\* ------------------------------------------- entities in the ambient store

\* At most MaxEntities entities are created, and at most MaxEdits further
\* writes are made to the store.
MaxEntities == 2
MaxEdits == 1

\* The bytes of the names: "P", "Q", "a" .. "f", and of "P.c".
NameP == <<80>>
NameQ == <<81>>
NameA == <<97>>
NameB == <<98>>
NameC == <<99>>
NameD == <<100>>
NameE == <<101>>
NameF == <<102>>

\* The fields of the entity struct P: one of each kind; the Backlinks field
\* is annotated #[backlink("P.c")].
FieldA == Field(NameA, ATOM, 0)
FieldB == Field(NameB, ATOM_OPTION, 0)
FieldC == Field(NameC, LINK, 0)
FieldD == Field(NameD, LINK_OPTION, 0)
FieldE == Field(NameE, MULTILINKS, fnv64_hash(NameP \o Dot \o NameE))
FieldF == Field(NameF, BACKLINKS, fnv64_hash(NameP \o Dot \o NameC))

\* The mixes of fields P is compiled with, and the unit struct Q that links
\* refer to.
Structs ==
  {Struct(NameP, fs) :
     fs \in {<<FieldA, FieldB, FieldC, FieldD, FieldE, FieldF>>,
             <<FieldA, FieldB>>,
             <<FieldD, FieldC>>,
             <<FieldB, FieldD, FieldE>>,
             <<FieldE, FieldF>>,
             <<FieldC, FieldA>>,
             <<>>}}
StructQ == Struct(NameQ, <<>>)

\* The strings an atom is created with: "Ada" and the empty string.
AtomValues == {<<65, 100, 97>>, <<>>}

\* The ids minted so far, and those whose node is present.
MintedIds == 1..gen.store.minted
Entities == {i \in MintedIds : IsSome(store_node(gen.store, i))}

\* The parameters create may be called with for a field.
Params(f) ==
  IF f.kind = ATOM THEN AtomValues
  ELSE IF f.kind = ATOM_OPTION THEN {None} \cup {Some(v) : v \in AtomValues}
  ELSE IF f.kind = LINK THEN Entities
  ELSE IF f.kind = LINK_OPTION THEN {None} \cup {Some(t) : t \in Entities}
  ELSE {None}
RECURSIVE ParamsFrom(_, _)
ParamsFrom(s, k) ==
  IF k > Len(s.fields) THEN {<<>>}
  ELSE {<<p>> \o rest : p \in Params(s.fields[k]),
                        rest \in ParamsFrom(s, k + 1)}
ParamsOf(s) == ParamsFrom(s, 1)

InitGen ==
  /\ InitGraphs
  /\ hist = NoHist
  /\ sync = NoSync
  /\ law = NoLaw
  /\ gen \in [schema : Structs, store : {StoreNew}, edits : {0},
              ret : {NoRet}]
  /\ build = NoBuild
  /\ call = NoCall

\* P::create(..) and Q::create().
DoCreate(s, params) ==
  LET w == create_writes(gen.store, s, params)
  IN /\ Cardinality(DOMAIN gen.store.g.n) < MaxEntities
     /\ \E order \in Orders(store_query_edge_src(w.st, w.id)) :
          gen' = [gen EXCEPT
            !.store = w.st,
            !.ret = [op |-> "create", struct |-> s, id |-> w.id,
                     params |-> params,
                     got |-> unwrap_get(get(w.st, s, w.id, order))]]
     /\ UNCHANGED <<pg, ref, hist, sync, law, build, call>>
Create == \E params \in ParamsOf(gen.schema) : DoCreate(gen.schema, params)
CreateQ == DoCreate(StructQ, <<>>)

\* P::get(id) of any id minted so far.
GetEntity(i) ==
  /\ \E order \in Orders(store_query_edge_src(gen.store, i)) :
       gen' = [gen EXCEPT
         !.ret = [op |-> "get", struct |-> gen.schema, id |-> i,
                  got |-> get(gen.store, gen.schema, i, order)]]
  /\ UNCHANGED <<pg, ref, hist, sync, law, build, call>>

\* Other writes to the store: an edge is cleared, a node is deleted, an edge
\* with the label of a field is added from one entity to another.
Edit(st) ==
  /\ gen.edits < MaxEdits
  /\ gen' = [gen EXCEPT !.store = st, !.edits = @ + 1, !.ret = NoRet]
  /\ UNCHANGED <<pg, ref, hist, sync, law, build, call>>
ClearEdge(e) ==
  /\ IsSome(store_edge(gen.store, e))
  /\ Edit(set_edge(gen.store, e, None))
RemoveNode(i) == Edit(set_node(gen.store, i, None))
AddLink(src, f, dst) ==
  Edit(set_edge(Minted(gen.store, 1), rng_gen(gen.store, 1),
                Some(<<src, FieldLabel(gen.schema, f), dst>>)))

NextGen ==
  \/ Create
  \/ CreateQ
  \/ \E i \in MintedIds : GetEntity(i)
  \/ \E e \in DOMAIN gen.store.g.e : ClearEdge(e)
  \/ \E i \in Entities : RemoveNode(i)
  \/ \E src \in Entities, dst \in Entities, k \in DOMAIN gen.schema.fields :
       /\ gen.schema.fields[k].kind \in {MULTILINKS, LINK_OPTION}
       /\ AddLink(src, gen.schema.fields[k], dst)

SpecGen == InitGen /\ [][NextGen]_vars

\* ------------------------------------------------------------- claims

\* The persistent graph of replica A.
A == pg["A"]

\* The register the persistent graph holds for an id, loaded or only stored.
NodeRegisterOf(c, i) == load_node(c, i).inner.n[i]
EdgeRegisterOf(c, i) == load_edge(c, i).inner.e[i]

\* C1: node(id) and edge(id) on the persistent graph return, for every id
\* and in every state reached through apply, join, load, unload and free,
\* what the in-memory reference graph given the same apply and join calls
\* returns.
C1_RefinesReference ==
  /\ \A i \in NodeIds : node(A, i).ret = GraphNode(ref["A"], i)
  /\ \A i \in EdgeIds : edge(A, i).ret = GraphEdge(ref["A"], i)

\* A state where the reads of C1 are served from the tables: node 1 holds a
\* label and edge 3 a triple, both written earlier and no longer in memory,
\* while node 2 is read from memory.
C1_Witness ==
  /\ 1 \notin A.loaded.n /\ 3 \notin A.loaded.e /\ 2 \in A.loaded.n
  /\ GraphNode(ref["A"], 1) = Some(2)
  /\ GraphEdge(ref["A"], 3) = Some(<<2, 2, 1>>)
  /\ Get(ref["A"].n, 2) = Register(MaxClock, None)

\* C2: when every write of an id carried a clock of its own, node(id) and
\* edge(id) return the value written with the greatest clock; and applying
\* to an id that is stored but not loaded an entry with a clock lower than
\* the stored one changes neither the row nor the value read afterwards.
C2_LastWriterWins ==
  /\ \A i \in LwwNodeIds :
       hist.used[i] # {} => node(A, i).ret = hist.top[i].value
  /\ \A i \in LwwEdgeIds :
       hist.used[i] # {} => edge(A, i).ret = hist.top[i].value
  /\ \A i \in LwwNodeIds, r \in NodeRegisters :
       (/\ i \notin A.loaded.n
        /\ u128_to_be_bytes(i) \in DOMAIN A.db.nodes
        /\ r.clock < NodeRegisterOf(A, i).clock)
       => LET c == apply(A, action_node(r.clock, i, r.value))
          IN /\ c.db.nodes = A.db.nodes
             /\ node(c, i).ret = node(A, i).ret
  /\ \A i \in LwwEdgeIds, r \in EdgeRegisters :
       (/\ i \notin A.loaded.e
        /\ u128_to_be_bytes(i) \in DOMAIN A.db.edges
        /\ r.clock < EdgeRegisterOf(A, i).clock)
       => LET c == apply(A, action_edge(r.clock, i, r.value))
          IN /\ c.db.edges = A.db.edges
             /\ edge(c, i).ret = edge(A, i).ret

\* A state where node 1 was written with every clock, a lower clock after
\* the greatest one (the last write was not the winner), and where the
\* winning registers of node 1 and edge 3 are stored but not loaded.
C2_Witness ==
  /\ hist.used[1] = Clocks /\ hist.top[1] = Register(MaxClock, Some(1))
  /\ hist.used[3] = {2, 1} /\ hist.top[3] = Register(2, None)
  /\ 1 \notin A.loaded.n /\ 3 \notin A.loaded.e
  /\ u128_to_be_bytes(1) \in DOMAIN A.db.nodes
  /\ u128_to_be_bytes(3) \in DOMAIN A.db.edges

\* The exchange is complete: each replica joined the state of the other.
Exchanged == sync.stage = "both"
Before(r) == Unwrap(sync.snap)[r]

\* C3: once replica A has joined B's state and B has joined A's, in either
\* order, both hold the same register for every id; and an id that one
\* replica had written with a lower clock than the other holds the register
\* of the greater clock on both.
C3_Convergence ==
  Exchanged =>
    /\ StateOf(pg["A"]) = StateOf(pg["B"])
    /\ \A i \in NodeIds :
         /\ NodeRegisterOf(pg["A"], i) = NodeRegisterOf(pg["B"], i)
         /\ Get(Before("A").n, i).clock < Get(Before("B").n, i).clock
            => NodeRegisterOf(pg["A"], i) = Get(Before("B").n, i)
         /\ Get(Before("B").n, i).clock < Get(Before("A").n, i).clock
            => NodeRegisterOf(pg["B"], i) = Get(Before("A").n, i)
    /\ \A i \in EdgeIds :
         /\ EdgeRegisterOf(pg["A"], i) = EdgeRegisterOf(pg["B"], i)
         /\ Get(Before("A").e, i).clock < Get(Before("B").e, i).clock
            => EdgeRegisterOf(pg["A"], i) = Get(Before("B").e, i)
         /\ Get(Before("B").e, i).clock < Get(Before("A").e, i).clock
            => EdgeRegisterOf(pg["B"], i) = Get(Before("A").e, i)

\* After the exchange: A had written node 1 with clock 1 and B with clock
\* 2, and B had written edge 3 with a lower clock than A.
C3_Witness ==
  /\ Exchanged
  /\ Get(Before("A").n, 1) = Register(1, Some(1))
  /\ Get(Before("B").n, 1) = Register(2, Some(2))
  /\ Get(Before("A").e, 3) = Register(2, None)
  /\ Get(Before("B").e, 3) = Register(1, Some(<<1, 1, 2>>))
  /\ NodeRegisterOf(pg["A"], 1) = Register(2, Some(2))

\* C4: unloading an id (unload_node, unload_edge or free) and loading it
\* again yields the in-memory register, clock and value, that was held just
\* before.
C4_RoundTrip ==
  /\ \A i \in DOMAIN A.inner.n :
       /\ load_node(free(A), i).inner.n[i] = A.inner.n[i]
       /\ load_node(unload_node(A, i), i).inner.n[i] = A.inner.n[i]
  /\ \A i \in DOMAIN A.inner.e :
       /\ load_edge(free(A), i).inner.e[i] = A.inner.e[i]
       /\ load_edge(unload_edge(A, i), i).inner.e[i] = A.inner.e[i]

\* A state with written registers of every shape in memory: a label, a
\* tombstone with a clock, and a triple.
C4_Witness ==
  /\ 1 \in DOMAIN A.inner.n /\ A.inner.n[1] = Register(MaxClock, Some(2))
  /\ 2 \in DOMAIN A.inner.n /\ A.inner.n[2] = Register(1, None)
  /\ 3 \in DOMAIN A.inner.e /\ A.inner.e[3] = Register(1, Some(<<1, 1, 2>>))

\* C5: each query returns exactly the ids whose register currently has a
\* matching present value: query_node_label(L) the nodes with label L,
\* query_edge_src(s) the edges with source s, query_edge_label_dst(L, d) the
\* edges with label L and destination d.
C5_QueriesMatchRegisters ==
  /\ \A l \in Labels :
       query_node_label(A, l) =
         Returned({i \in NodeIds : node(A, i).ret = Some(l)})
  /\ \A s \in NodeIds :
       query_edge_src(A, s) =
         Returned({i \in EdgeIds : /\ IsSome(edge(A, i).ret)
                                   /\ Unwrap(edge(A, i).ret)[1] = s})
  /\ \A l \in Labels, d \in NodeIds :
       query_edge_label_dst(A, l, d) =
         Returned({i \in EdgeIds : /\ IsSome(edge(A, i).ret)
                                   /\ Unwrap(edge(A, i).ret)[2] = l
                                   /\ Unwrap(edge(A, i).ret)[3] = d})

\* C6: preq(t) is true exactly when, for every id known to the persistent
\* graph (loaded or only stored) or to t, joining the persistent register
\* with t's register yields t's register; and the answer is the same
\* whatever is loaded.
C6_PreqAgreesWithJoin ==
  \A t \in States :
    /\ preq(A, t).ret <=>
         /\ \A i \in A.loaded.n \cup RowIds(A.db.nodes) \cup DOMAIN t.n :
              RegisterJoin(NodeRegisterOf(A, i), Get(t.n, i), "node")
                = Get(t.n, i)
         /\ \A i \in A.loaded.e \cup RowIds(A.db.edges) \cup DOMAIN t.e :
              RegisterJoin(EdgeRegisterOf(A, i), Get(t.e, i), "edge")
                = Get(t.e, i)
    /\ preq(A, t).ret = preq(free(A), t).ret

\* C7: joining the same state a second time, or applying the same action a
\* second time, changes no in-memory register, no loaded set and no row.
C7_JoinIdempotent ==
  /\ \A t \in States : join(join(A, t), t) = join(A, t)
  /\ \A a \in Actions : apply(apply(A, a), a) = apply(A, a)

\* A state, reached by writes, where a join meets a register of its own
\* clock and another value, and the first join does change the graph.
C7_Witness ==
  /\ 1 \in DOMAIN A.inner.n
  /\ A.inner.n[1] = Register(1, Some(1))
  /\ A.db.nodes[u128_to_be_bytes(1)] = NodeRow(Register(1, Some(1)))
  /\ \E t \in States :
       /\ 1 \in DOMAIN t.n /\ t.n[1] = Register(1, Some(2))
       /\ join(A, t) # A

\* C8: comp is associative, the empty action is its identity on both sides,
\* and applying comp(a, b) to a graph leaves the registers, in memory and in
\* the tables, that applying a and then b leaves.
C8_CompMonoid ==
  law.pc = "done" =>
    /\ Unwrap(law.out).left = Unwrap(law.out).right
    /\ Unwrap(law.out).idl = law.a
    /\ Unwrap(law.out).idr = law.a
    /\ Unwrap(law.out).seq = A

\* The laws were evaluated on actions that meet on an id with the same
\* clock and different values, a writing an edge that b does not, on a graph
\* that already held the node.
C8_Witness ==
  /\ law.pc = "done"
  /\ 1 \in DOMAIN law.a.n /\ 1 \in DOMAIN law.b.n /\ 1 \in DOMAIN law.c.n
  /\ law.a.n[1].clock = law.b.n[1].clock
  /\ law.a.n[1].value # law.b.n[1].value
  /\ 3 \in DOMAIN law.a.e /\ 3 \notin DOMAIN law.b.e
  /\ law.c.n[1].clock > law.a.n[1].clock

\* An outgoing edge of i with a present value bears the label of field f.
HasEdge(st, s, i, f) ==
  \E e \in store_query_edge_src(st, i) :
    Unwrap(store_edge(st, e))[2] = FieldLabel(s, f)

\* The fields of s of the given kinds.
FieldsOf(s, kinds) == {k \in DOMAIN s.fields : s.fields[k].kind \in kinds}

\* The value an Atom or AtomOption field of an entity decodes to.
AtomValue(st, field) == from_bytes(Unwrap(st.atoms[field.raw[1]]))

\* C9: create(..) always obtains Some from get(id) for the id it has just
\* minted, whatever the mix of fields; the entity it returns has that id,
\* each Atom field (and each AtomOption given as Some) is bound to the
\* destination on which the encoded value was stored, so that it decodes to
\* the value given, and each Link field (and each LinkOption given as Some)
\* is bound to an edge from the id, with the field's label, to the id of the
\* entity given.
C9_CreateThenRead ==
  gen.ret.op = "create" =>
    LET r == gen.ret
        s == r.struct
        st == gen.store
    IN /\ ~r.got.panic
       /\ Unwrap(r.got.val).id = r.id
       /\ \A k \in DOMAIN s.fields :
            LET f == s.fields[k]
                bound == Unwrap(r.got.val).fields[k]
                given == IF f.kind \in {ATOM, LINK} THEN Some(r.params[k])
                         ELSE r.params[k]
            IN /\ (f.kind \in {ATOM, ATOM_OPTION} /\ IsSome(given)) =>
                    /\ bound.raw[1] \in DOMAIN st.atoms
                    /\ st.atoms[bound.raw[1]]
                         = Some(to_allocvec(Unwrap(given)))
                    /\ AtomValue(st, bound) = Unwrap(given)
                    /\ \E e \in store_query_edge_src(st, r.id) :
                         store_edge(st, e)
                           = Some(<<r.id, FieldLabel(s, f), bound.raw[1]>>)
               /\ (f.kind \in {LINK, LINK_OPTION} /\ IsSome(given)) =>
                    store_edge(st, bound.raw[1])
                      = Some(<<r.id, FieldLabel(s, f), Unwrap(given)>>)

\* An entity with a field of each kind has been created with "Ada", no
\* optional atom, and both links to an entity created before.
C9_Witness ==
  /\ gen.ret.op = "create"
  /\ gen.ret.struct = gen.schema
  /\ Len(gen.schema.fields) = 6
  /\ gen.ret.params[1] = <<65, 100, 97>>
  /\ gen.ret.params[2] = None
  /\ IsSome(gen.ret.params[4])
  /\ gen.ret.params[3] \in Entities
  /\ ~gen.ret.got.panic
  /\ AtomValue(gen.store, Unwrap(gen.ret.got.val).fields[1])
       = <<65, 100, 97>>

\* get(id), for every id and every order of the edges: None exactly when
\* the node of id is absent or a field of one of the kinds has no outgoing
\* edge of id with its label; otherwise the entity with that id.
GetNoneExactly(kinds) ==
  \A i \in MintedIds \cup {gen.store.minted + 1} :
    \A order \in Orders(store_query_edge_src(gen.store, i)) :
      LET got == get(gen.store, gen.schema, i, order)
          missing ==
            \/ ~IsSome(store_node(gen.store, i))
            \/ \E k \in FieldsOf(gen.schema, kinds) :
                 ~HasEdge(gen.store, gen.schema, i, gen.schema.fields[k])
      IN /\ (got = None) <=> missing
         /\ IsSome(got) => Unwrap(got).id = i

\* C10, as stated: get(id) returns None exactly when the node register of
\* id has no present value or some Atom or Link field has no outgoing edge
\* of id bearing its label; in every other case, also when only AtomOption
\* or LinkOption fields have no such edge, it returns the entity with that
\* id.
C10_NoneOnlyForRequired == GetNoneExactly({ATOM, LINK})

\* C10, amended: get(id) returns None exactly when the node register of id
\* has no present value or some Atom, AtomOption, Link or LinkOption field
\* has no outgoing edge of id bearing its label; in every other case it
\* returns the entity with that id.
C10_NoneForAnyScalar == GetNoneExactly(ScalarKinds)

\* get has returned None for an entity of the struct whose node is present
\* and whose Atom and Link fields all have their edges, an optional field
\* having lost its edge.
C10_Witness ==
  /\ gen.ret.op = "get"
  /\ gen.ret.got = None
  /\ store_node(gen.store, gen.ret.id) = Some(StructLabel(gen.schema))
  /\ FieldsOf(gen.schema, {ATOM, LINK}) # {}
  /\ \A k \in FieldsOf(gen.schema, {ATOM, LINK}) :
       HasEdge(gen.store, gen.schema, gen.ret.id, gen.schema.fields[k])
  /\ \E k \in FieldsOf(gen.schema, {ATOM_OPTION, LINK_OPTION}) :
       ~HasEdge(gen.store, gen.schema, gen.ret.id, gen.schema.fields[k])

\* The persistent graph behind the store: its tables hold the rows of the
\* store's registers.
store_graph(st) ==
  join(new([nodes |-> EmptyTable, edges |-> EmptyTable]), st.g)

\* Backlinks view bound to (i, label): the sources of the edges that
\* query_edge_label_dst(label, i) returns.
backlinks(st, i, label) ==
  LET q == query_edge_label_dst(store_graph(st), label, i)
  IN [ok |-> q.ok,
      ids |-> {Unwrap(store_edge(st, e))[1] : e \in q.ids}]

\* C11: the label a Backlinks field derives from its annotation "S.f" is
\* the label under which create of S writes the edge of its field f; so
\* after S::create with the Link field f targeting p,
\* query_edge_label_dst(that label, p) returns exactly the edges whose source
\* is the created entity, and the Backlinks view bound to (p, that label)
\* yields the id of the created entity.
C11_BacklinksSeeForwardLinks ==
  (gen.ret.op = "create" /\ gen.ret.struct = gen.schema) =>
    \A k \in FieldsOf(gen.schema, {LINK}),
       b \in FieldsOf(gen.schema, {BACKLINKS}) :
      LET s == gen.schema
          p == gen.ret.params[k]
          label == s.fields[b].label
      IN /\ label = FieldLabel(s, s.fields[k])
         /\ query_edge_label_dst(store_graph(gen.store), label, p)
              = Returned({e \in store_query_edge_src(gen.store, gen.ret.id) :
                            Unwrap(store_edge(gen.store, e))[2] = label})
         /\ backlinks(gen.store, p, label) = Returned({gen.ret.id})

\* ------------------------------------------ runs in which the store fails

\* The orders in which a batch may run over the ids: the nodes first, then
\* the edges, each in the order their hash map yields them.
Batches(ns, es) ==
  {on \o oe : on \in Orders({<<"n", i>> : i \in ns}),
              oe \in Orders({<<"e", i>> : i \in es})}
BatchesOf(a) == Batches(DOMAIN a.n, DOMAIN a.e)

\* The actions (and states) of these runs: two nodes and an edge, written
\* with one clock.
FailActions ==
  {comp(comp(action_node(c, 1, Some(1)), action_node(c, 2, v)),
        action_edge(c, 3, Some(<<1, 1, 2>>))) :
     c \in Clocks \ {0}, v \in {None, Some(2)}}
Phases == {"load", "save"}

ApplyFails(a, batch, phase, k) ==
  LET r == apply_failing(pg["A"], a, batch, phase, k)
  IN r.panic /\ DoCall("A", r.c) /\ UNCHANGED aux
JoinFails(t, batch, phase, k) ==
  LET r == join_failing(pg["A"], t, batch, phase, k)
  IN r.panic /\ DoCall("A", r.c) /\ UNCHANGED aux
LoadsFails(batch, k) ==
  LET r == loads_failing(pg["A"], batch, k)
  IN r.panic /\ DoCall("A", r.c) /\ UNCHANGED aux
SavesFails(batch, k) ==
  LET r == saves_failing(pg["A"], batch, k)
  IN r.panic /\ DoCall("A", r.c) /\ UNCHANGED aux
LoadNodeFails(i) ==
  LET r == load_node_failing(pg["A"], i)
  IN r.panic /\ DoCall("A", r.c) /\ UNCHANGED aux
LoadEdgeFails(i) ==
  LET r == load_edge_failing(pg["A"], i)
  IN r.panic /\ DoCall("A", r.c) /\ UNCHANGED aux

NextFail ==
  \/ \E a \in FailActions : Apply(a)
  \/ \E t \in FailActions : Join(t)
  \/ \E i \in NodeIds : Node(i)
  \/ \E i \in EdgeIds : Edge(i)
  \/ \E i \in NodeIds : UnloadNode(i)
  \/ Free
  \/ \E a \in FailActions, p \in Phases, k \in 1..3 :
       \E b \in BatchesOf(a) : ApplyFails(a, b, p, k)
  \/ \E t \in FailActions, p \in Phases, k \in 1..3 :
       \E b \in BatchesOf(t) : JoinFails(t, b, p, k)
  \/ \E b \in Batches(NodeIds, EdgeIds), k \in 1..3 : LoadsFails(b, k)
  \/ \E b \in Batches(NodeIds, EdgeIds), k \in 1..3 : SavesFails(b, k)
  \/ \E i \in NodeIds : LoadNodeFails(i)
  \/ \E i \in EdgeIds : LoadEdgeFails(i)

SpecFail == Init /\ [][NextFail]_vars

\* Whether the id of a batch is loaded, its register in memory and its row
\* (None when it has none).
LoadedOf(c, it) ==
  IF it[1] = "n" THEN it[2] \in c.loaded.n ELSE it[2] \in c.loaded.e
MemOf(c, it) ==
  LET m == IF it[1] = "n" THEN c.inner.n ELSE c.inner.e
  IN IF it[2] \in DOMAIN m THEN Some(m[it[2]]) ELSE None
RowOf(c, it) ==
  LET t == IF it[1] = "n" THEN c.db.nodes ELSE c.db.edges
      key == u128_to_be_bytes(it[2])
  IN IF key \in DOMAIN t THEN Some(t[key]) ELSE None

\* What a batch of loads leaves when the store fails at its k-th id: the
\* ids before it are loaded as their own load leaves them, the ids after it
\* are as they were, and no row has changed.
LoadsStopAt(c, after, batch, k) ==
  /\ \A j \in 1..(k - 1) :
       /\ LoadedOf(after, batch[j])
       /\ MemOf(after, batch[j]) = MemOf(load_item(c, batch[j]), batch[j])
  /\ \A j \in (k + 1)..Len(batch) :
       /\ LoadedOf(after, batch[j]) = LoadedOf(c, batch[j])
       /\ MemOf(after, batch[j]) = MemOf(c, batch[j])
  /\ after.db = c.db

\* What a batch of saves leaves when the store fails at its k-th id: memory
\* is as it was (mem), the rows of the ids before it are those of their
\* registers, the rows of the ids after it are as they were.
SavesStopAt(c, mem, after, batch, k) ==
  /\ after.inner = mem.inner
  /\ after.loaded = mem.loaded
  /\ \A j \in 1..(k - 1) :
       RowOf(after, batch[j]) = RowOf(save_item(mem, batch[j]), batch[j])
  /\ \A j \in (k + 1)..Len(batch) :
       RowOf(after, batch[j]) = RowOf(c, batch[j])

\* C12: batches are not atomic. When the store fails at the k-th id of a
\* loads or saves batch, alone or inside apply or join, the effects on
\* memory and on the rows of the ids before it are kept, and no id after it
\* is loaded or saved; inside apply and join a failure of the loads leaves
\* the merge and the saves undone, a failure of the saves leaves the merge
\* done in memory.
C12_BatchesNotAtomic ==
  LET c == pg["A"]
  IN /\ \A b \in Batches(NodeIds, EdgeIds), k \in 1..3 :
          /\ loads_failing(c, b, k).panic =>
               LoadsStopAt(c, loads_failing(c, b, k).c, b, k)
          /\ saves_failing(c, b, k).panic =>
               SavesStopAt(c, c, saves_failing(c, b, k).c, b, k)
     /\ \A a \in FailActions, k \in 1..3 : \A b \in BatchesOf(a) :
          LET loaded == loads(c, DOMAIN a.n, DOMAIN a.e)
              applied == [loaded EXCEPT !.inner = GraphApply(@, a)]
              joined == [loaded EXCEPT !.inner = GraphJoin(@, a)]
          IN /\ apply_failing(c, a, b, "load", k).panic =>
                  LoadsStopAt(c, apply_failing(c, a, b, "load", k).c, b, k)
             /\ join_failing(c, a, b, "load", k).panic =>
                  LoadsStopAt(c, join_failing(c, a, b, "load", k).c, b, k)
             /\ apply_failing(c, a, b, "save", k).panic =>
                  SavesStopAt(c, applied,
                              apply_failing(c, a, b, "save", k).c, b, k)
             /\ join_failing(c, a, b, "save", k).panic =>
                  SavesStopAt(c, joined,
                              join_failing(c, a, b, "save", k).c, b, k)

\* The store has failed at the second id of a batch over nodes 1 and 2 and
\* edge 3: node 1 holds the register of its row, node 2 is marked loaded and
\* has no register, edge 3 is not loaded although it has a row.
C12_Witness ==
  LET c == pg["A"]
  IN /\ c.loaded = [n |-> {1, 2}, e |-> {}]
     /\ DOMAIN c.inner.n = {1}
     /\ RowOf(c, <<"n", 1>>) = Some(NodeRow(c.inner.n[1]))
     /\ c.inner.n[1] # DefaultRegister
     /\ IsSome(RowOf(c, <<"e", 3>>))

\* C13: a storage error leaves no partial state in memory. When the store
\* fails while load_node or load_edge reads the row of id, the registers in
\* memory and the loaded sets are what they were before the load, so that a
\* later node(id) or edge(id) reads the row again and returns what it would
\* have returned without the failure.
C13_NoPartialState ==
  LET c == pg["A"]
  IN /\ \A i \in NodeIds :
          LET r == load_node_failing(c, i)
          IN r.panic => /\ r.c.inner = c.inner
                        /\ r.c.loaded = c.loaded
                        /\ node(r.c, i).ret = node(c, i).ret
     /\ \A i \in EdgeIds :
          LET r == load_edge_failing(c, i)
          IN r.panic => /\ r.c.inner = c.inner
                        /\ r.c.loaded = c.loaded
                        /\ edge(r.c, i).ret = edge(c, i).ret

\* ------------------------------------------------ builds of an item

\* The types of the fields the model draws from: the six wrappers and Vec,
\* each with a type argument, with a lifetime argument only or with no
\* argument, and a reference type.
Wrappers == {ATOM, LINK, ATOM_OPTION, LINK_OPTION, MULTILINKS, BACKLINKS}
Types ==
  {[kind |-> "path", ident |-> w, args |-> a, inner |-> "T"] :
     w \in Wrappers \cup {"Vec"}, a \in {"type", "lifetime", "none"}}
  \cup {[kind |-> "reference", ident |-> "", args |-> "none", inner |-> "T"]}

\* The attributes of a field: none, #[backlink("P.c")], #[backlink(P)],
\* and #[doc = ".."] before #[backlink("P.c")].
BacklinkAttr(lit) == [style |-> "outer", name |-> "backlink", lit |-> lit]
DocAttr == [style |-> "outer", name |-> "doc", lit |-> None]
AttrLists ==
  {<<>>,
   <<BacklinkAttr(Some(NameP \o Dot \o NameC))>>,
   <<BacklinkAttr(None)>>,
   <<DocAttr, BacklinkAttr(Some(NameP \o Dot \o NameC))>>}

NamedFields ==
  [ident : {Some(NameA), Some(ID)}, ty : Types, attrs : AttrLists]
TupleFields ==
  [ident : {None}, ty : {t \in Types : t.args = "type"}, attrs : {<<>>}]
GoodField ==
  [ident |-> Some(NameB),
   ty |-> [kind |-> "path", ident |-> ATOM, args |-> "type", inner |-> "T"],
   attrs |-> <<>>]

\* The items: structs with no field, one field, or a good field and
\* another; tuple structs of one field; the unit struct; each with and
\* without a generic parameter.
Items ==
  [name : {NameP}, shape : {"named"}, generics : {0, 1},
   fields : {<<>>} \cup {<<f>> : f \in NamedFields}
            \cup {<<GoodField, f>> : f \in NamedFields}]
  \cup [name : {NameP}, shape : {"tuple"}, generics : {0, 1},
        fields : {<<f>> : f \in TupleFields}]
  \cup [name : {NameP}, shape : {"unit"}, generics : {0, 1},
        fields : {<<>>}]

InitBuild ==
  /\ InitGraphs
  /\ hist = NoHist
  /\ sync = NoSync
  /\ law = NoLaw
  /\ gen = NoGen
  /\ build \in [item : {Some(it) : it \in Items}, out : {None}]
  /\ call = NoCall

\* The build expands #[model] on the item.
Expand ==
  /\ build.out = None
  /\ build' = [build EXCEPT !.out = Some(model(Unwrap(build.item)))]
  /\ UNCHANGED <<pg, ref, hist, sync, law, gen, call>>

NextBuild == Expand
SpecBuild == InitBuild /\ [][NextBuild]_vars

\* A type is one of the six wrappers applied to a type.
IsWrapper(ty) ==
  ty.kind = "path" /\ ty.ident \in Wrappers /\ ty.args = "type"

\* A field carries a #[backlink("..")] annotation.
HasBacklinkAnnotation(field) ==
  \E k \in DOMAIN field.attrs :
    /\ field.attrs[k].name = "backlink"
    /\ IsSome(field.attrs[k].lit)

\* What the compiler is to reject.
Malformed(item) ==
  \/ item.shape = "tuple"
  \/ item.generics # 0
  \/ \E k \in DOMAIN item.fields :
       \/ item.fields[k].ident = Some(ID)
       \/ ~IsWrapper(item.fields[k].ty)
       \/ /\ item.fields[k].ty.ident = BACKLINKS
          /\ ~HasBacklinkAnnotation(item.fields[k])

\* C14: the macro fails the build, generating no code, for every item that
\* is a tuple struct, has generic parameters, has a field named id, has a
\* field whose type is not one of the six wrappers, or has a Backlinks field
\* without a backlink annotation; it accepts a unit struct as an entity
\* with no field.
C14_RejectsMalformed ==
  IsSome(build.out) =>
    LET item == Unwrap(build.item)
        out == Unwrap(build.out)
    IN /\ Malformed(item) => out = Rejected
       /\ (item.shape = "unit" /\ item.generics = 0) =>
            /\ out.ok
            /\ out.val.struct.fields = <<>>
            /\ out.val.struct.name = item.name

\* The build has failed on a struct whose only fault is a field named id.
C14_Witness ==
  /\ IsSome(build.out)
  /\ Unwrap(build.out) = Rejected
  /\ LET item == Unwrap(build.item)
     IN /\ item.shape = "named"
        /\ item.generics = 0
        /\ Len(item.fields) = 2
        /\ item.fields[2].ident = Some(ID)
        /\ \A k \in DOMAIN item.fields :
             /\ IsWrapper(item.fields[k].ty)
             /\ item.fields[k].ty.ident # BACKLINKS

\* ------------------------------------------ the rows and the registers

\* The ids of an action or state, as the items of a batch.
ItemsOf(a) ==
  {<<"n", i>> : i \in DOMAIN a.n} \cup {<<"e", i>> : i \in DOMAIN a.e}

\* The row of a register of the kind of the item.
RowFor(it, reg) == IF it[1] = "n" THEN NodeRow(reg) ELSE EdgeRow(reg)
RegisterFor(it, row) ==
  IF it[1] = "n" THEN NodeRegister(row) ELSE EdgeRegister(row)
KindOf(it) == IF it[1] = "n" THEN "node" ELSE "edge"
EntryOf(a, it) == IF it[1] = "n" THEN a.n[it[2]] ELSE a.e[it[2]]

\* after is c written through for the ids of a: every id is loaded, its
\* register is the join of the register c loads for it with the entry of
\* a, and its row is the row of that register.
WrittenThrough(c, a, after) ==
  \A it \in ItemsOf(a) :
    LET before == Unwrap(MemOf(load_item(c, it), it))
        now == MemOf(after, it)
    IN /\ LoadedOf(after, it)
       /\ now = Some(RegisterJoin(before, EntryOf(a, it), KindOf(it)))
       /\ RowOf(after, it) = Some(RowFor(it, Unwrap(now)))
       /\ RegisterFor(it, Unwrap(RowOf(after, it))) = Unwrap(now)

\* C15: write-through. When apply(a) or join(t) returns, every node and
\* edge id of a (of t) is loaded, its register in memory is the merge of the
\* register loaded for it with the incoming entry, and its row equals that
\* register (same clock, same value, NULL columns for None), whether the
\* incoming entry won or lost.
C15_WriteThrough ==
  \A a \in Actions :
    /\ WrittenThrough(pg["A"], a, apply(pg["A"], a))
    /\ WrittenThrough(pg["A"], a, join(pg["A"], a))

\* An entry for node 1, which is not loaded, loses against the greater
\* clock of the row: apply loads the register of the row and writes it back.
C15_Witness ==
  LET c == pg["A"]
      a == action_node(1, 1, Some(2))
  IN /\ 1 \notin c.loaded.n
     /\ IsSome(RowOf(c, <<"n", 1>>))
     /\ NodeRegister(Unwrap(RowOf(c, <<"n", 1>>))) = Register(2, Some(1))
     /\ apply(c, a).inner.n[1] = Register(2, Some(1))
     /\ RowOf(apply(c, a), <<"n", 1>>) = Some(NodeRow(Register(2, Some(1))))

\* The register a first load installs: that of the row, or the default.
Stored(c, it) ==
  IF IsSome(RowOf(c, it)) THEN RegisterFor(it, Unwrap(RowOf(c, it)))
  ELSE DefaultRegister

\* C16: load happens once per id. A load of an id that is not in the loaded
\* set puts it there and installs the register of its row, or the default
\* register when it has no row, and touches no other id; a load of an id
\* that is in the loaded set changes nothing, also when the register in
\* memory differs from the row.
C16_LoadOnce ==
  LET c == pg["A"]
  IN \A it \in {<<"n", i>> : i \in NodeIds} \cup {<<"e", i>> : i \in EdgeIds} :
       LET after == load_item(c, it)
       IN IF LoadedOf(c, it) THEN after = c
          ELSE /\ LoadedOf(after, it)
               /\ MemOf(after, it) = Some(Stored(c, it))
               /\ after.db = c.db
               /\ \A o \in {<<"n", i>> : i \in NodeIds}
                           \cup {<<"e", i>> : i \in EdgeIds} :
                    o # it => /\ MemOf(after, o) = MemOf(c, o)
                              /\ LoadedOf(after, o) = LoadedOf(c, o)

\* Node 1 is loaded with a register that differs from the one of its row:
\* a load of it reads nothing. Node 2 is not loaded and has a row with a
\* label: a load of it installs that register.
C16_Witness ==
  LET c == pg["A"]
  IN /\ 1 \in c.loaded.n
     /\ 1 \in DOMAIN c.inner.n
     /\ IsSome(RowOf(c, <<"n", 1>>))
     /\ c.inner.n[1] # Stored(c, <<"n", 1>>)
     /\ load_node(c, 1) = c
     /\ 2 \notin c.loaded.n
     /\ IsSome(Stored(c, <<"n", 2>>).value)
     /\ load_node(c, 2).inner.n[2] = Stored(c, <<"n", 2>>)

\* The rows of c and after differ at most at the ids of the items.
RowsChangeOnlyAt(c, after, items) ==
  /\ \A k \in (DOMAIN c.db.nodes) \cup (DOMAIN after.db.nodes) :
       <<"n", u128_from_be_bytes(k)>> \notin items =>
         /\ k \in DOMAIN c.db.nodes
         /\ k \in DOMAIN after.db.nodes
         /\ after.db.nodes[k] = c.db.nodes[k]
  /\ \A k \in (DOMAIN c.db.edges) \cup (DOMAIN after.db.edges) :
       <<"e", u128_from_be_bytes(k)>> \notin items =>
         /\ k \in DOMAIN c.db.edges
         /\ k \in DOMAIN after.db.edges
         /\ after.db.edges[k] = c.db.edges[k]

\* C17: only saving writes the store. preq, node, edge, load_node,
\* load_edge, loads, unload_node, unload_edge, unloads and free leave every
\* row of both tables as it was; save_node and save_edge change at most the
\* row of the saved id, and saves, apply and join at most the rows of the
\* ids they are given.
C17_OnlySavesWrite ==
  LET c == pg["A"]
  IN /\ \A t \in States : preq(c, t).c.db = c.db
     /\ \A i \in NodeIds :
          /\ node(c, i).c.db = c.db
          /\ load_node(c, i).db = c.db
          /\ unload_node(c, i).db = c.db
          /\ RowsChangeOnlyAt(c, save_node(c, i), {<<"n", i>>})
     /\ \A i \in EdgeIds :
          /\ edge(c, i).c.db = c.db
          /\ load_edge(c, i).db = c.db
          /\ unload_edge(c, i).db = c.db
          /\ RowsChangeOnlyAt(c, save_edge(c, i), {<<"e", i>>})
     /\ \A ns \in SUBSET NodeIds, es \in SUBSET EdgeIds :
          /\ loads(c, ns, es).db = c.db
          /\ unloads(c, ns, es).db = c.db
          /\ RowsChangeOnlyAt(c, saves(c, ns, es),
               {<<"n", i>> : i \in ns} \cup {<<"e", i>> : i \in es})
     /\ free(c).db = c.db
     /\ \A a \in Actions :
          /\ RowsChangeOnlyAt(c, apply(c, a), ItemsOf(a))
          /\ RowsChangeOnlyAt(c, join(c, a), ItemsOf(a))

\* Both tables have rows, some id is loaded, and after free, unloads and
\* preq the rows are all there.
C17_Witness ==
  LET c == pg["A"]
  IN /\ RowIds(c.db.nodes) = NodeIds
     /\ RowIds(c.db.edges) = EdgeIds
     /\ c.loaded.n # {}
     /\ c.loaded.e # {}
     /\ free(c).db = c.db
     /\ free(c).loaded.n = {}
     /\ \E t \in States : preq(free(c), t).c.loaded.n # {}

\* C18: the shape of the rows. In every edge row src, label and dst are all
\* NULL or all present; the row that save_edge (save_node) writes for a
\* register has them (has label) NULL exactly when the value of the
\* register is None; the clock column always holds a clock. So load_edge
\* never meets a row with a label and no src or dst.
C18_RowShape ==
  LET c == pg["A"]
  IN /\ \A k \in DOMAIN c.db.edges :
          LET row == c.db.edges[k]
          IN /\ \/ row.src = None /\ row.label = None /\ row.dst = None
                \/ IsSome(row.src) /\ IsSome(row.label) /\ IsSome(row.dst)
             /\ Len(row.clock) = U128Bytes
     /\ \A k \in DOMAIN c.db.nodes : Len(c.db.nodes[k].clock) = U128Bytes
     /\ \A i \in DOMAIN c.inner.e :
          LET row == Unwrap(RowOf(save_edge(c, i), <<"e", i>>))
          IN (row.src = None /\ row.label = None /\ row.dst = None)
               <=> (c.inner.e[i].value = None)
     /\ \A i \in DOMAIN c.inner.n :
          LET row == Unwrap(RowOf(save_node(c, i), <<"n", i>>))
          IN (row.label = None) <=> (c.inner.n[i].value = None)

\* The tables hold the row of a deleted edge (all three columns NULL, a
\* clock above 0) and the row of a node with a label.
C18_Witness ==
  LET c == pg["A"]
  IN /\ \E k \in DOMAIN c.db.edges :
          /\ c.db.edges[k].label = None
          /\ clock_from_be_bytes(c.db.edges[k].clock) > 0
     /\ \E k \in DOMAIN c.db.nodes : IsSome(c.db.nodes[k].label)

\* --------------------------------------------------- what create writes

\* The edges with a present value whose label is that of field f.
EdgesOfField(st, s, f, edges) ==
  {e \in edges : /\ IsSome(store_edge(st, e))
                 /\ Unwrap(store_edge(st, e))[2] = FieldLabel(s, f)}

\* post is pre after a create that returned r: the node of the fresh id
\* holds the struct label and no other node is written; every edge written
\* is new, has a fresh id and the entity as its source; each Atom,
\* AtomOption, Link and LinkOption field has exactly one of them under its
\* label, which for an option given as None targets a fresh id with no node
\* and no payload; no Multilinks or Backlinks field has one; the entity has
\* no other outgoing edge.
CreateWrote(pre, post, r) ==
  LET s == r.struct
      written == (DOMAIN post.g.e) \ (DOMAIN pre.g.e)
      fresh == (pre.minted + 1)..post.minted
  IN /\ r.id \in fresh
     /\ r.id \notin DOMAIN pre.g.n
     /\ store_node(post, r.id) = Some(StructLabel(s))
     /\ DOMAIN post.g.n = (DOMAIN pre.g.n) \cup {r.id}
     /\ \A e \in DOMAIN pre.g.e : post.g.e[e] = pre.g.e[e]
     /\ \A e \in written :
          /\ e \in fresh \ {r.id}
          /\ IsSome(store_edge(post, e))
          /\ Unwrap(store_edge(post, e))[1] = r.id
     /\ store_query_edge_src(post, r.id) = written
     /\ Cardinality(written) = Cardinality(FieldsOf(s, ScalarKinds))
     /\ \A k \in DOMAIN s.fields :
          LET mine == EdgesOfField(post, s, s.fields[k], written)
          IN IF s.fields[k].kind \in ScalarKinds
             THEN /\ Cardinality(mine) = 1
                  /\ (s.fields[k].kind \in {ATOM_OPTION, LINK_OPTION}
                      /\ r.params[k] = None) =>
                       \A e \in mine :
                         LET dst == Unwrap(store_edge(post, e))[3]
                         IN /\ dst \in fresh \ ({r.id} \cup written)
                            /\ dst \notin DOMAIN post.g.n
                            /\ dst \notin DOMAIN post.atoms
             ELSE mine = {}

\* C19: what create writes. A step in which create returns has set the node
\* register of the fresh entity id to the struct label and written exactly
\* one edge, with a fresh id, the entity as source and the field's label,
\* for each Atom, AtomOption, Link and LinkOption field (for an option given
\* as None the edge targets a fresh id whose node is not written), and no
\* edge for a Multilinks or Backlinks field.
C19_WhatCreateWrites ==
  [][(gen'.ret.op = "create" /\ gen'.store # gen.store) =>
       CreateWrote(gen.store, gen'.store, gen'.ret)]_vars

\* An entity with a field of each kind has been created with both options
\* given as None: it has four outgoing edges, two of them to ids without a
\* node.
C19_Witness ==
  /\ gen.ret.op = "create"
  /\ gen.ret.struct = gen.schema
  /\ Len(gen.schema.fields) = 6
  /\ gen.ret.params[2] = None
  /\ gen.ret.params[4] = None
  /\ Cardinality(store_query_edge_src(gen.store, gen.ret.id)) = 4
  /\ Cardinality({e \in store_query_edge_src(gen.store, gen.ret.id) :
       Unwrap(store_edge(gen.store, e))[3] \notin DOMAIN gen.store.g.n
         \cup DOMAIN gen.store.atoms}) = 2

\* ------------------------------------------------------ stored clocks

\* The clock of the row of the item, 0 when it has no row.
RowClock(c, it) ==
  IF IsSome(RowOf(c, it)) THEN clock_from_be_bytes(Unwrap(RowOf(c, it)).clock)
  ELSE 0

C21_LoadedSetInvariant ==
  \A r \in Replicas :
    /\ pg[r].loaded.n = DOMAIN pg[r].inner.n
    /\ pg[r].loaded.e = DOMAIN pg[r].inner.e

\* Node 2 has been unloaded after it was stored: node 1 and edge 3 are
\* loaded and in memory, node 2 is neither, and all three have rows.
C21_Witness ==
  LET c == pg["A"]
  IN /\ RowIds(c.db.nodes) = {1, 2}
     /\ RowIds(c.db.edges) = {3}
     /\ c.loaded = [n |-> {1}, e |-> {3}]
     /\ DOMAIN c.inner.n = {1}
     /\ DOMAIN c.inner.e = {3}
     /\ c.inner.n[1] # DefaultRegister

\* ------------------------------------------------------ store scopes

(***************************************************************************)
(* SpecScope: generated create and get run one call at a time against the  *)
(* ambient store. The accessor fails fast when it is entered while a scope *)
(* is open; the writes of a closure are in the store when it returns.      *)
(***************************************************************************)
InitScope == InitGen

\* P::create(..) or Q::create() is called.
BeginCreate(s, params) ==
  LET w == create_writes(gen.store, s, params)
  IN /\ call.fn = "none"
     /\ Cardinality(DOMAIN gen.store.g.n) < MaxEntities
     /\ \E order \in Orders(store_query_edge_src(w.st, w.id)) :
          call' = [NoCall EXCEPT
            !.fn = "create",
            !.steps = create_steps(gen.store, s, params, order),
            !.after = w.st]
     /\ UNCHANGED <<pg, ref, hist, sync, law, gen, build>>
ScopeCreate ==
  \E params \in ParamsOf(gen.schema) : BeginCreate(gen.schema, params)
ScopeCreateQ == BeginCreate(StructQ, <<>>)

\* P::get(id) is called.
BeginGet(i) ==
  /\ call.fn = "none"
  /\ \E order \in Orders(store_query_edge_src(gen.store, i)) :
       call' = [NoCall EXCEPT
         !.fn = "get",
         !.steps = get_steps(gen.store, gen.schema, i, order),
         !.after = gen.store]
  /\ UNCHANGED <<pg, ref, hist, sync, law, gen, build>>

\* The call under way makes its next call.
Step ==
  /\ call.steps # <<>>
  /\ LET h == Head(call.steps)
         went == [call EXCEPT !.steps = Tail(@), !.done = Append(@, h)]
     IN IF h = OpenScope THEN
          /\ call' = IF call.depth > 0
                     THEN [went EXCEPT !.failed = TRUE, !.steps = <<>>]
                     ELSE [went EXCEPT !.depth = @ + 1]
          /\ gen' = gen
        ELSE IF h = EndScope THEN
          /\ call' = [went EXCEPT !.depth = @ - 1]
          /\ gen' = [gen EXCEPT !.store = call.after]
        ELSE
          /\ call' = went
          /\ gen' = gen
  /\ UNCHANGED <<pg, ref, hist, sync, law, build>>

\* The call returns, or its panic has unwound.
Return ==
  /\ call.fn # "none"
  /\ call.steps = <<>>
  /\ call' = NoCall
  /\ UNCHANGED <<pg, ref, hist, sync, law, gen, build>>

NextScope ==
  \/ ScopeCreate
  \/ ScopeCreateQ
  \/ \E i \in MintedIds : BeginGet(i)
  \/ Step
  \/ Return
  \/ \E e \in DOMAIN gen.store.g.e : call.fn = "none" /\ ClearEdge(e)
  \/ \E i \in Entities : call.fn = "none" /\ RemoveNode(i)

SpecScope == InitScope /\ [][NextScope]_vars

\* How many of the first j calls made so far were x.
Made(x, j) == Cardinality({k \in 1..j : call.done[k] = x})
StoreWrites == {"store.set_node", "store.set_edge", "store.set_atom"}

\* C22: no nested store access in generated code. While a generated create
\* or get runs, the accessor never fails on reentrancy and at most one
\* scope is open; the accessor is entered only with every earlier scope
\* closed, so nothing called inside a scope opens another; create makes its
\* writes in its first scope and that scope is closed before get opens its
\* own and reads the node.
C22_NoNestedScope ==
  /\ ~call.failed
  /\ call.depth \in {0, 1}
  /\ (call.steps # <<>> /\ Head(call.steps) = OpenScope) => call.depth = 0
  /\ \A j \in DOMAIN call.done :
       /\ call.done[j] = OpenScope =>
            Made(OpenScope, j - 1) = Made(EndScope, j - 1)
       /\ (call.fn = "create" /\ call.done[j] \in StoreWrites) =>
            Made(OpenScope, j - 1) = 1 /\ Made(EndScope, j - 1) = 0
       /\ (call.fn = "create" /\ call.done[j] = "store.node") =>
            Made(OpenScope, j - 1) = 2 /\ Made(EndScope, j - 1) = 1

\* A create of the struct with a field of every kind has run to its end:
\* it asked a linked entity for its id and serialised an atom inside its
\* scope, closed it, and get opened and closed a second one, building views.
C22_Witness ==
  /\ call.fn = "create"
  /\ call.steps = <<>>
  /\ Len(gen.schema.fields) = 6
  /\ Made(OpenScope, Len(call.done)) = 2
  /\ Made(EndScope, Len(call.done)) = 2
  /\ Made("Model::id", Len(call.done)) = 2
  /\ Made("postcard::to_allocvec", Len(call.done)) = 2
  /\ Made("from_raw", Len(call.done)) = 6
  /\ call.done[Len(call.done)] = "unwrap"

====
